---- MODULE Spec2Model ----
(***************************************************************************)
(* Verification model of the crypto-tax-app transaction pipeline.          *)
(*                                                                         *)
(* Part I  : CostBasisCalculator (FIFO / LIFO lot matching).               *)
(* Part II : EthereumAdapter.getTransactions (block-range chunking and     *)
(*           log fetching with retry).                                     *)
(*                                                                         *)
(* Numbers.  Token quantities are exact integers counted in some smallest  *)
(* unit, prices are integer USD per unit, so every product and quotient    *)
(* the calculator forms is exact; the rounding of IEEE doubles is not      *)
(* modelled.  A USD value is <<n>> for the number n and <<>> for NaN       *)
(* (0/0, which parseFloat(costBasisUSD) / availableAmount yields for a     *)
(* zero-quantity lot).                                                     *)
(***************************************************************************)
EXTENDS Integers, Sequences, FiniteSets, TLC

(***************************************************************************)
(* Bounds of the model.                                                    *)
(***************************************************************************)
MaxTx == 3          \* transactions in a lot-matching batch
MaxBatch == 3       \* transactions in a multi-token batch
MaxChainTxs == 2    \* transactions of the address on the chain
MaxRateLimits == 4  \* rate-limit errors the provider raises during one call
MaxCalls == 3        \* calls made on the adapters of one run
MaxFaults == 1       \* other errors the provider raises during one call
MaxHashes == 7       \* new hashes of one chunk
MaxLogs == 3         \* logs of a transaction given to parseTransaction
MaxAmount == 120     \* magnitude of a base-unit amount given to fromWei
MaxDecimals == 3     \* decimals given to fromWei and toWei
MaxMetaTasks == 2    \* concurrent resolveTokenMetadata calls

VARIABLES
    \* ---- CostBasisCalculator ----
    transactions,        \* calculateCostBasis argument
    method,              \* options.method
    tokenQueue,          \* entries of transactionsByToken still to be processed
    dispositions,        \* dispositions of the token being processed
    entries,             \* applyCostBasisMethod: entries
    acquisitionIndex,    \* applyCostBasisMethod: acquisitionIndex (0-based)
    dispositionIndex,    \* position of the for-of loop over dispositions (1-based)
    remainingToDispose,  \* applyCostBasisMethod: remainingToDispose
    results,             \* calculateCostBasis: results
    cbPc,                \* control position of calculateCostBasis
    consumptions,        \* history: one record per lot consumption, in order
    iterations           \* history: executions of the while body for this token

cbVars == <<transactions, method, tokenQueue, dispositions, entries,
            acquisitionIndex, dispositionIndex, remainingToDispose, results,
            cbPc, consumptions, iterations>>

VARIABLES
    \* ---- EthereumAdapter.getTransactions ----
    chain,               \* the provider's view of the chain (unchanged by a call)
    fromBlock,           \* options.fromBlock
    toBlock,             \* options.toBlock
    limit,               \* options.limit ?? Number.POSITIVE_INFINITY
    offset,              \* options.offset ?? 0
    chunkStart,          \* loop variable of the chunk loop
    groupedLogs,         \* Map hash -> logs, in insertion order
    processed,           \* Map hash -> RawTransaction, in insertion order
    fetch,               \* the two fetchLogsWithRetry calls of the current chunk
    rateLimitsLeft,      \* rate-limit errors the provider will still raise
    faultsLeft,          \* other errors the provider will still raise
    ethPc,               \* control position of getTransactions
    ethError,            \* the error getTransactions rejects with
    ethResult            \* the list getTransactions resolves with

ethVars == <<chain, fromBlock, toBlock, limit, offset, chunkStart, groupedLogs,
             processed, fetch, rateLimitsLeft, faultsLeft, ethPc, ethError,
             ethResult>>

VARIABLES
    \* ---- the adapters: initialize, getTransactions, getBalance ----
    adapters,            \* per adapter: the initialized flag and the client set
    lastCall,            \* the last call made on an adapter and its outcome
    callsMade            \* number of calls made on the adapters

adVars == <<adapters, lastCall, callsMade>>

VARIABLES
    \* ---- EthereumAdapter.resolveTokenMetadata ----
    tokenMetadataCache,  \* this.tokenMetadataCache
    metaTasks            \* the resolveTokenMetadata calls, each with its position

metaVars == <<tokenMetadataCache, metaTasks>>

VARIABLES
    \* ---- EthereumAdapter.getTransactions: the detail lookups of a chunk ----
    detailQueue,         \* batches not yet started
    detailTasks,         \* the tasks of the batch under Promise.all
    detailStored,        \* processed.size
    detailLimit,         \* options.limit ?? Number.POSITIVE_INFINITY
    detailPc             \* control position of the batch loop

detailVars == <<detailQueue, detailTasks, detailStored, detailLimit, detailPc>>

VARIABLES
    \* ---- parseTransaction of an adapter ----
    rawTx,               \* the argument
    parsed,              \* the ParsedTransaction returned
    priceLookups         \* the calls of priceService.getHistoricalPrice

parseVars == <<rawTx, parsed, priceLookups>>

VARIABLES
    \* ---- a call of a function of the pipeline ----
    fnArgs,              \* its arguments
    fnLocals,            \* its local variables while it awaits
    fnReturned           \* what it returned

fnVars == <<fnArgs, fnLocals, fnReturned>>

auxVars == <<adVars, metaVars, detailVars, parseVars, fnVars>>

vars == <<cbVars, ethVars, auxVars>>

\* what an action of one component leaves alone
nonCbVars == <<ethVars, auxVars>>
nonEthVars == <<cbVars, auxVars>>
nonAdVars == <<cbVars, ethVars, metaVars, detailVars, parseVars, fnVars>>
nonMetaVars == <<cbVars, ethVars, adVars, detailVars, parseVars, fnVars>>
nonDetailVars == <<cbVars, ethVars, adVars, metaVars, parseVars, fnVars>>
nonParseVars == <<cbVars, ethVars, adVars, metaVars, detailVars, fnVars>>
nonFnVars == <<cbVars, ethVars, adVars, metaVars, detailVars, parseVars>>

\* no error: the value of an error slot before anything is thrown
NoError == [name |-> "none", message |-> <<>>]

\* The components that a specification does not run stay in these states.
CBIdle ==
    /\ transactions = <<>>
    /\ method = "FIFO"
    /\ tokenQueue = <<>>
    /\ dispositions = <<>>
    /\ entries = <<>>
    /\ acquisitionIndex = 0
    /\ dispositionIndex = 1
    /\ remainingToDispose = 0
    /\ results = <<>>
    /\ cbPc = "idle"
    /\ consumptions = <<>>
    /\ iterations = 0

EthIdle ==
    /\ chain = <<>>
    /\ fromBlock = 0
    /\ toBlock = 0
    /\ limit = 0
    /\ offset = 0
    /\ chunkStart = 0
    /\ groupedLogs = <<>>
    /\ processed = <<>>
    /\ fetch = <<>>
    /\ rateLimitsLeft = 0
    /\ faultsLeft = 0
    /\ ethPc = "idle"
    /\ ethError = NoError
    /\ ethResult = <<>>

AdIdle ==
    /\ adapters = <<>>
    /\ lastCall = <<>>
    /\ callsMade = 0

MetaIdle ==
    /\ tokenMetadataCache = <<>>
    /\ metaTasks = <<>>

DetailIdle ==
    /\ detailQueue = <<>>
    /\ detailTasks = <<>>
    /\ detailStored = 0
    /\ detailLimit = 0
    /\ detailPc = "idle"

Undefined == "undefined"

NoRawTx == [from |-> Undefined]
NoParsed == [type |-> Undefined]

ParseIdle ==
    /\ rawTx = NoRawTx
    /\ parsed = NoParsed
    /\ priceLookups = <<>>

NoArgs == [name |-> Undefined]
NotReturned == [done |-> FALSE]
NoLocals == [pc |-> Undefined]

FnIdle ==
    /\ fnArgs = NoArgs
    /\ fnLocals = NoLocals
    /\ fnReturned = NotReturned

AuxIdle == AdIdle /\ MetaIdle /\ DetailIdle /\ ParseIdle /\ FnIdle

(***************************************************************************)
(* Arithmetic on USD values (number or NaN).                               *)
(***************************************************************************)
NaN == <<>>
Num(n) == <<n>>
IsNaN(x) == x = <<>>
Abs(x) == IF x < 0 THEN -x ELSE x

FAdd(a, b) == IF IsNaN(a) \/ IsNaN(b) THEN NaN ELSE Num(a[1] + b[1])
FSub(a, b) == IF IsNaN(a) \/ IsNaN(b) THEN NaN ELSE Num(a[1] - b[1])
FMul(a, b) == IF IsNaN(a) \/ IsNaN(b) THEN NaN ELSE Num(a[1] * b[1])
\* a / b.  Every quotient formed is costBasisUSD / amount of a lot, where
\* costBasisUSD is a multiple of amount; a zero amount gives 0/0 = NaN.
FDiv(a, b) == IF IsNaN(a) \/ IsNaN(b) \/ b[1] = 0 THEN NaN ELSE Num(a[1] \div b[1])

RECURSIVE FSum(_)
FSum(s) == IF s = <<>> THEN Num(0) ELSE FAdd(Head(s), FSum(Tail(s)))

RECURSIVE Sum(_)
Sum(s) == IF s = <<>> THEN 0 ELSE Head(s) + Sum(Tail(s))

(***************************************************************************)
(* Transactions.                                                           *)
(***************************************************************************)
TransactionTypeEnum == {"buy", "sell", "swap", "transfer", "airdrop", "reward", "fee"}
AcquisitionTypes == {"buy", "airdrop", "reward", "mining"}
DispositionTypes == {"sell", "swap", "transfer"}

\* A Transaction: id, type, tokenSymbol, amount (signed quantity; the string
\* starts with '-' exactly when it is negative), priceUSD (0 also stands for a
\* missing price: priceUSD || 0), timestamp.
Tx(id, shape) ==
    [id |-> id, type |-> shape.type, tokenSymbol |-> shape.tokenSymbol,
     amount |-> shape.amount, priceUSD |-> shape.priceUSD,
     timestamp |-> shape.timestamp]

IsAcquisition(tx) == tx.type \in AcquisitionTypes
\* mutant: the sign of the amount is not looked at
MutIsDispositionAnySign(tx) == tx.type \in DispositionTypes
IsDisposition(tx) == tx.type \in DispositionTypes /\ tx.amount < 0

(***************************************************************************)
(* groupTransactionsByToken: a Map in insertion order, as a sequence of    *)
(* <<symbol, transactions>> pairs.                                         *)
(***************************************************************************)
RECURSIVE SymbolsInOrder(_, _)
SymbolsInOrder(txs, seen) ==
    IF txs = <<>> THEN <<>>
    ELSE IF Head(txs).tokenSymbol \in seen THEN SymbolsInOrder(Tail(txs), seen)
    ELSE <<Head(txs).tokenSymbol>>
           \o SymbolsInOrder(Tail(txs), seen \cup {Head(txs).tokenSymbol})

TransactionsOf(txs, symbol) ==
    LET Same(tx) == tx.tokenSymbol = symbol IN SelectSeq(txs, Same)

\* mutant: every group receives the whole batch
MutGroupWholeBatch(txs) ==
    LET syms == SymbolsInOrder(txs, {})
    IN  [i \in 1..Len(syms) |-> <<syms[i], txs>>]

GroupTransactionsByToken(txs) ==
    LET syms == SymbolsInOrder(txs, {})
    IN  [i \in 1..Len(syms) |-> <<syms[i], TransactionsOf(txs, syms[i])>>]

(***************************************************************************)
(* sortAcquisitions: Array.prototype.sort is stable; the comparator is     *)
(* dateA - dateB for FIFO (and any other method), dateB - dateA for LIFO.  *)
(***************************************************************************)
Compare(a, b, m) ==
    IF m = "LIFO" THEN b.timestamp - a.timestamp ELSE a.timestamp - b.timestamp

RECURSIVE InsertStable(_, _, _)
InsertStable(sorted, tx, m) ==
    IF sorted = <<>> THEN <<tx>>
    ELSE IF Compare(tx, Head(sorted), m) < 0 THEN <<tx>> \o sorted
    ELSE <<Head(sorted)>> \o InsertStable(Tail(sorted), tx, m)

RECURSIVE SortInto(_, _, _)
SortInto(sorted, rest, m) ==
    IF rest = <<>> THEN sorted
    ELSE SortInto(InsertStable(sorted, Head(rest), m), Tail(rest), m)

\* mutant: the lots keep their input order
MutSortAcquisitionsUnsorted(acqs, m) == acqs

SortAcquisitions(acqs, m) == SortInto(<<>>, acqs, m)

(***************************************************************************)
(* applyCostBasisMethod.                                                   *)
(***************************************************************************)
AcquisitionEntry(a) ==
    [id |-> <<"acq", a.id>>, transactionId |-> a.id,
     tokenSymbol |-> a.tokenSymbol, amount |-> a.amount,
     costBasisUSD |-> Num(a.amount * a.priceUSD),
     acquisitionDate |-> a.timestamp, isDisposed |-> FALSE,
     disposalTxnId |-> 0]

RECURSIVE AcquisitionEntries(_)
AcquisitionEntries(acqs) ==
    IF acqs = <<>> THEN <<>>
    ELSE <<AcquisitionEntry(Head(acqs))>> \o AcquisitionEntries(Tail(acqs))

DispositionEntry(d, idx, partial, qty, gainLoss, lot) ==
    [id |-> <<"disp", d.id, idx, partial>>, transactionId |-> d.id,
     tokenSymbol |-> d.tokenSymbol, amount |-> -qty,
     costBasisUSD |-> gainLoss,
     acquisitionDate |-> lot.acquisitionDate, isDisposed |-> TRUE,
     disposalTxnId |-> d.id]

\* (dispositionPrice - costBasisUSD / availableAmount) * quantity
GainLoss(d, lot, qty) ==
    FMul(FSub(Num(d.priceUSD), FDiv(lot.costBasisUSD, Num(lot.amount))), Num(qty))

\* the while condition
Matching(es, idx, remaining) == remaining > 0 /\ idx < Len(es)

\* "Use entire acquisition": entries after the branch
MutUseEntireKeepsLot(es, idx, d) ==
    LET lot == es[idx + 1]
    IN  Append(es, DispositionEntry(d, idx, FALSE, lot.amount,
                                    GainLoss(d, lot, lot.amount), lot))

UseEntire(es, idx, d) ==
    LET lot == es[idx + 1]
    IN  Append([es EXCEPT ![idx + 1].isDisposed = TRUE],
               DispositionEntry(d, idx, FALSE, lot.amount,
                                GainLoss(d, lot, lot.amount), lot))

\* mutant: the partly consumed lot keeps its whole basis
MutUsePartialKeepsBasis(es, idx, d, remaining) ==
    LET lot == es[idx + 1]
    IN  Append([es EXCEPT ![idx + 1].amount = lot.amount - remaining],
               DispositionEntry(d, idx, TRUE, remaining,
                                GainLoss(d, lot, remaining), lot))

\* "Use partial acquisition": entries after the branch
UsePartial(es, idx, d, remaining) ==
    LET lot == es[idx + 1]
        left == lot.amount - remaining
    IN  Append([es EXCEPT ![idx + 1].amount = left,
                          ![idx + 1].costBasisUSD =
                              FMul(FDiv(lot.costBasisUSD, Num(lot.amount)), Num(left))],
               DispositionEntry(d, idx, TRUE, remaining,
                                GainLoss(d, lot, remaining), lot))

\* The while loop of one disposition, run to its end: <<entries, acquisitionIndex>>
RECURSIVE MatchLoop(_, _, _, _)
MatchLoop(es, idx, d, remaining) ==
    IF ~Matching(es, idx, remaining) THEN <<es, idx>>
    ELSE IF es[idx + 1].isDisposed THEN MatchLoop(es, idx + 1, d, remaining)
    ELSE IF es[idx + 1].amount <= remaining
         THEN MatchLoop(UseEntire(es, idx, d), idx + 1, d,
                        remaining - es[idx + 1].amount)
    ELSE MatchLoop(UsePartial(es, idx, d, remaining), idx, d, 0)

\* The for-of loop over the dispositions, in the order given
RECURSIVE DispositionLoop(_, _, _)
DispositionLoop(es, idx, ds) ==
    IF ds = <<>> THEN es
    ELSE LET r == MatchLoop(es, idx, Head(ds), Abs(Head(ds).amount))
         IN  DispositionLoop(r[1], r[2], Tail(ds))

ApplyCostBasisMethod(acqs, ds) == DispositionLoop(AcquisitionEntries(acqs), 0, ds)

(***************************************************************************)
(* calculateTokenCostBasis and calculateCostBasis.                         *)
(***************************************************************************)
Acquisitions(txs) == SelectSeq(txs, IsAcquisition)
\* mutant: the dispositions are put in timestamp order
MutDispositionsByTimestamp(txs) == SortInto(<<>>, SelectSeq(txs, IsDisposition), "FIFO")
Dispositions(txs) == SelectSeq(txs, IsDisposition)

AbsAmounts(txs) == [i \in 1..Len(txs) |-> Abs(txs[i].amount)]

\* The totals of lines 291-319, from the token's transactions and its entries
TokenResult(symbol, txs, es) ==
    LET Disposed(e) == e.isDisposed
        Held(e) == ~e.isDisposed
        CostOf(x) == [i \in 1..Len(x) |-> x[i].costBasisUSD]
        totalAcquired == Sum(AbsAmounts(Acquisitions(txs)))
        totalDisposed == Sum(AbsAmounts(Dispositions(txs)))
    IN  [tokenSymbol |-> symbol,
         totalAcquired |-> totalAcquired,
         totalDisposed |-> totalDisposed,
         remainingQuantity |-> totalAcquired - totalDisposed,
         realizedGainLoss |-> FSum(CostOf(SelectSeq(es, Disposed))),
         costBasis |-> FSum(CostOf(SelectSeq(es, Held))),
         entries |-> es]

CalculateTokenCostBasis(symbol, txs, m) ==
    TokenResult(symbol, txs,
                ApplyCostBasisMethod(SortAcquisitions(Acquisitions(txs), m),
                                     Dispositions(txs)))

CalculateCostBasisOf(txs, m) ==
    LET groups == GroupTransactionsByToken(txs)
    IN  [i \in 1..Len(groups) |->
            CalculateTokenCostBasis(groups[i][1], groups[i][2], m)]

(***************************************************************************)
(* calculateCostBasis as a process: one action per step of its control     *)
(* flow.                                                                   *)
(***************************************************************************)
\* line 255: group, then iterate the map
CalculateCostBasis ==
    /\ cbPc = "start"
    /\ tokenQueue' = GroupTransactionsByToken(transactions)
    /\ results' = <<>>
    /\ cbPc' = "token"
    /\ UNCHANGED <<transactions, method, dispositions, entries, acquisitionIndex,
                   dispositionIndex, remainingToDispose, consumptions, iterations>>
    /\ UNCHANGED nonCbVars

\* lines 276-288 and 370-387: split, sort, turn the lots into entries
BeginToken ==
    /\ cbPc = "token"
    /\ tokenQueue # <<>>
    /\ LET txs == Head(tokenQueue)[2]
       IN  /\ dispositions' = Dispositions(txs)
           /\ entries' = AcquisitionEntries(SortAcquisitions(Acquisitions(txs), method))
    /\ acquisitionIndex' = 0
    /\ dispositionIndex' = 1
    /\ remainingToDispose' = 0
    /\ iterations' = 0
    /\ cbPc' = "disposition"
    /\ UNCHANGED <<transactions, method, tokenQueue, results, consumptions>>
    /\ UNCHANGED nonCbVars

\* lines 390-392: the next disposition of the for-of loop
NextDisposition ==
    /\ cbPc = "disposition"
    /\ dispositionIndex <= Len(dispositions)
    /\ remainingToDispose' = Abs(dispositions[dispositionIndex].amount)
    /\ cbPc' = "match"
    /\ UNCHANGED <<transactions, method, tokenQueue, dispositions, entries,
                   acquisitionIndex, dispositionIndex, results, consumptions,
                   iterations>>
    /\ UNCHANGED nonCbVars

\* mutant: the skip branch forgets acquisitionIndex++
MutSkipDisposedStuck ==
    /\ cbPc = "match"
    /\ Matching(entries, acquisitionIndex, remainingToDispose)
    /\ entries[acquisitionIndex + 1].isDisposed
    /\ iterations' = iterations + 1
    /\ UNCHANGED <<transactions, method, tokenQueue, dispositions, entries,
                   acquisitionIndex, dispositionIndex, remainingToDispose,
                   results, cbPc, consumptions>>
    /\ UNCHANGED nonCbVars

\* lines 398-401
SkipDisposed ==
    /\ cbPc = "match"
    /\ Matching(entries, acquisitionIndex, remainingToDispose)
    /\ entries[acquisitionIndex + 1].isDisposed
    /\ acquisitionIndex' = acquisitionIndex + 1
    /\ iterations' = iterations + 1
    /\ UNCHANGED <<transactions, method, tokenQueue, dispositions, entries,
                   dispositionIndex, remainingToDispose, results, cbPc, consumptions>>
    /\ UNCHANGED nonCbVars

\* lines 405-426
UseEntireAcquisition ==
    /\ cbPc = "match"
    /\ Matching(entries, acquisitionIndex, remainingToDispose)
    /\ ~entries[acquisitionIndex + 1].isDisposed
    /\ entries[acquisitionIndex + 1].amount <= remainingToDispose
    /\ LET d == dispositions[dispositionIndex]
           lot == entries[acquisitionIndex + 1]
       IN  /\ entries' = UseEntire(entries, acquisitionIndex, d)
           /\ remainingToDispose' = remainingToDispose - lot.amount
           /\ consumptions' = Append(consumptions,
                  [disposition |-> d.id, lot |-> lot.transactionId,
                   quantity |-> lot.amount, full |-> TRUE])
    /\ acquisitionIndex' = acquisitionIndex + 1
    /\ iterations' = iterations + 1
    /\ UNCHANGED <<transactions, method, tokenQueue, dispositions,
                   dispositionIndex, results, cbPc>>
    /\ UNCHANGED nonCbVars

\* lines 427-455
UsePartialAcquisition ==
    /\ cbPc = "match"
    /\ Matching(entries, acquisitionIndex, remainingToDispose)
    /\ ~entries[acquisitionIndex + 1].isDisposed
    /\ entries[acquisitionIndex + 1].amount > remainingToDispose
    /\ LET d == dispositions[dispositionIndex]
           lot == entries[acquisitionIndex + 1]
       IN  /\ entries' = UsePartial(entries, acquisitionIndex, d, remainingToDispose)
           /\ consumptions' = Append(consumptions,
                  [disposition |-> d.id, lot |-> lot.transactionId,
                   quantity |-> remainingToDispose, full |-> FALSE])
    /\ remainingToDispose' = 0
    /\ iterations' = iterations + 1
    /\ UNCHANGED <<transactions, method, tokenQueue, dispositions,
                   acquisitionIndex, dispositionIndex, results, cbPc>>
    /\ UNCHANGED nonCbVars

\* line 395: the while condition fails, the for-of loop advances
EndMatching ==
    /\ cbPc = "match"
    /\ ~Matching(entries, acquisitionIndex, remainingToDispose)
    /\ dispositionIndex' = dispositionIndex + 1
    /\ cbPc' = "disposition"
    /\ UNCHANGED <<transactions, method, tokenQueue, dispositions, entries,
                   acquisitionIndex, remainingToDispose, results, consumptions,
                   iterations>>
    /\ UNCHANGED nonCbVars

\* lines 290-319 and 261: the totals of the token, pushed on results
FinishToken ==
    /\ cbPc = "disposition"
    /\ dispositionIndex > Len(dispositions)
    /\ results' = Append(results,
                         TokenResult(Head(tokenQueue)[1], Head(tokenQueue)[2], entries))
    /\ tokenQueue' = Tail(tokenQueue)
    /\ cbPc' = "token"
    /\ UNCHANGED <<transactions, method, dispositions, entries, acquisitionIndex,
                   dispositionIndex, remainingToDispose, consumptions, iterations>>
    /\ UNCHANGED nonCbVars

\* line 264
ReturnResults ==
    /\ cbPc = "token"
    /\ tokenQueue = <<>>
    /\ cbPc' = "done"
    /\ UNCHANGED <<transactions, method, tokenQueue, dispositions, entries,
                   acquisitionIndex, dispositionIndex, remainingToDispose,
                   results, consumptions, iterations>>
    /\ UNCHANGED nonCbVars

CBNext ==
    \/ CalculateCostBasis
    \/ BeginToken
    \/ NextDisposition
    \/ SkipDisposed
    \/ UseEntireAcquisition
    \/ UsePartialAcquisition
    \/ EndMatching
    \/ FinishToken
    \/ ReturnResults


(***************************************************************************)
(* Inputs.                                                                 *)
(***************************************************************************)
Methods == {"FIFO", "LIFO"}

\* Lot matching: one token.  Lots of 1..2 units bought at 1 USD (time 1) or
\* 2 USD (time 2), an older lot at the higher price, a lot without a price, a
\* lot of zero units (the Transaction invariant keeps acquisition amounts
\* non-negative); outgoing sells of 1..2 units above every lot's price, and
\* one without a price.
Shape(type, symbol, amount, price, time) ==
    [type |-> type, tokenSymbol |-> symbol, amount |-> amount,
     priceUSD |-> price, timestamp |-> time]

LotShapes ==
    {Shape("buy", "ETH", a, 1, 1) : a \in 1..2}
    \cup {Shape("buy", "ETH", a, 2, 2) : a \in 1..2}
    \cup {Shape("buy", "ETH", 1, 2, 1), Shape("buy", "ETH", 1, 0, 1),
          Shape("buy", "ETH", 0, 1, 2)}
    \cup {Shape("sell", "ETH", a, 3, t) : a \in {-2, -1}, t \in 1..2}
    \cup {Shape("sell", "ETH", -1, 0, 1)}

\* Classification and grouping: every type, the sell/swap/transfer types and
\* buy with either sign, for one token, and a second token whose transactions
\* interleave with the first's.
TokenShapes ==
    {Shape(ty, "ETH", 1, 2, 1) : ty \in TransactionTypeEnum \ {"fee"}}
    \cup {Shape(ty, "ETH", -1, 2, 1) : ty \in {"buy", "sell", "swap", "transfer", "fee"}}
    \cup {Shape("buy", "USDC", 2, 1, 1), Shape("sell", "USDC", -1, 1, 1)}

Batches(shapes, max) ==
    UNION {{[i \in 1..n |-> Tx(i, f[i])] : f \in [1..n -> shapes]} : n \in 0..max}

CBStart(batches) ==
    /\ transactions \in batches
    /\ method \in Methods
    /\ tokenQueue = <<>>
    /\ dispositions = <<>>
    /\ entries = <<>>
    /\ acquisitionIndex = 0
    /\ dispositionIndex = 1
    /\ remainingToDispose = 0
    /\ results = <<>>
    /\ cbPc = "start"
    /\ consumptions = <<>>
    /\ iterations = 0
    /\ EthIdle
    /\ AuxIdle

InitCB == CBStart(Batches(LotShapes, MaxTx))

SpecCB == InitCB /\ [][CBNext]_vars

InitTokens == CBStart(Batches(TokenShapes, MaxBatch))

SpecTokens == InitTokens /\ [][CBNext]_vars

(***************************************************************************)
(* Properties of the cost-basis calculator.                                *)
(***************************************************************************)
\* Transaction ids are the positions in the input batch.
Range(f) == {f[i] : i \in DOMAIN f}
IsLot(e) == e.id[1] = "acq"
LotEntries(es) == {i \in DOMAIN es : IsLot(es[i])}
DispEntries(es) == {i \in DOMAIN es : ~IsLot(es[i])}
ConsumptionsOf(symbol) ==
    LET OfToken(c) == transactions[c.disposition].tokenSymbol = symbol
    IN  SelectSeq(consumptions, OfToken)

\* (disposition priceUSD - the consumed lot's unit cost) x quantity consumed
ConsumptionGain(c) ==
    (transactions[c.disposition].priceUSD - transactions[c.lot].priceUSD) * c.quantity

ExpectedRealized(symbol) ==
    LET cs == ConsumptionsOf(symbol)
    IN  Sum([i \in 1..Len(cs) |-> ConsumptionGain(cs[i])])

\* C1: realizedGainLoss of every token equals the sum, over every lot
\* consumption made by a disposition, of (disposition price - unit cost of the
\* consumed lot) x quantity consumed, also when a lot is consumed in full.
C1_RealizedIsSumOverConsumptions ==
    cbPc = "done" =>
        \A i \in DOMAIN results :
            results[i].realizedGainLoss = Num(ExpectedRealized(results[i].tokenSymbol))

\* C2: lots are consumed in acquisition-timestamp order: a lot that a
\* disposition has consumed from (fully or in part) is never later (FIFO) /
\* earlier (LIFO) than a lot that is not yet fully consumed; on lots 2@1 at
\* t1, 2@2 at t2 > t1 and a sell of 1@3, FIFO realizes 2 and LIFO realizes 1.
Touched(e) == e.isDisposed \/ e.amount < transactions[e.transactionId].amount

C2_Example ==
    <<Tx(1, [type |-> "buy", tokenSymbol |-> "ETH", amount |-> 2, priceUSD |-> 1,
             timestamp |-> 1]),
      Tx(2, [type |-> "buy", tokenSymbol |-> "ETH", amount |-> 2, priceUSD |-> 2,
             timestamp |-> 2]),
      Tx(3, [type |-> "sell", tokenSymbol |-> "ETH", amount |-> -1, priceUSD |-> 3,
             timestamp |-> 2])>>

C2_LotsConsumedInTimestampOrder ==
    /\ \A i \in LotEntries(entries) : \A j \in LotEntries(entries) :
          (i # j /\ Touched(entries[i]) /\ ~entries[j].isDisposed) =>
             IF method = "LIFO"
             THEN entries[i].acquisitionDate >= entries[j].acquisitionDate
             ELSE entries[i].acquisitionDate <= entries[j].acquisitionDate
    /\ (cbPc = "done" /\ transactions = C2_Example) =>
          results[1].realizedGainLoss = (IF method = "LIFO" THEN Num(1) ELSE Num(2))

\* C2 witness: the input lists the later lot first, and FIFO has consumed from
\* the earlier one while the later one is still whole.
C2_Witness ==
    /\ method = "FIFO"
    /\ Len(transactions) >= 3
    /\ transactions[1].type = "buy" /\ transactions[2].type = "buy"
    /\ transactions[1].timestamp > transactions[2].timestamp
    /\ \E i \in LotEntries(entries) : \E j \in LotEntries(entries) :
          /\ entries[i].transactionId = 2 /\ Touched(entries[i])
          /\ entries[j].transactionId = 1 /\ ~Touched(entries[j])
          /\ entries[j].amount > 0

\* C3: a partial consumption (used < A, basis B) leaves the lot in place with
\* amount A - used and basis B x (A - used) / A, not disposed, appends exactly
\* one entry with amount -used, and the disposition consumes no further lot.
C3_PartialStep ==
    LET lot == entries[acquisitionIndex + 1]
        lotAfter == entries'[acquisitionIndex + 1]
    IN  (/\ cbPc = "match"
         /\ Matching(entries, acquisitionIndex, remainingToDispose)
         /\ ~lot.isDisposed
         /\ remainingToDispose < lot.amount)
        => /\ lotAfter.amount = lot.amount - remainingToDispose
           /\ lotAfter.costBasisUSD[1] * lot.amount
                 = lot.costBasisUSD[1] * (lot.amount - remainingToDispose)
           /\ ~lotAfter.isDisposed
           /\ lotAfter.id = lot.id
           /\ Len(entries') = Len(entries) + 1
           /\ entries'[Len(entries')].amount = -remainingToDispose
           /\ entries'[Len(entries')].transactionId
                 = dispositions[dispositionIndex].id
           /\ \A k \in DOMAIN entries :
                 k # acquisitionIndex + 1 => entries'[k] = entries[k]
           /\ remainingToDispose' = 0

C3_NoFurtherLot ==
    (cbPc = "match" /\ remainingToDispose = 0) => entries' = entries

C3_PartialConsumption == [][C3_PartialStep /\ C3_NoFurtherLot]_vars

\* C3 witness: half of a lot of 2 units with basis 4 has been disposed; the
\* lot stays with 1 unit, basis 2, not disposed.
C3_Witness ==
    /\ cbPc = "done"
    /\ \E c \in Range(consumptions) : ~c.full /\ c.quantity = 1
    /\ \E i \in LotEntries(entries) :
          /\ transactions[entries[i].transactionId].amount = 2
          /\ transactions[entries[i].transactionId].priceUSD = 2
          /\ entries[i].amount = 1
          /\ entries[i].costBasisUSD = Num(2)
          /\ ~entries[i].isDisposed

\* C4: a transaction is an acquisition iff its type is buy, airdrop, reward or
\* mining, a disposition iff its type is sell, swap or transfer and its amount
\* is negative; any other transaction adds to no total and creates no entry.
C4_IsAcquisition(tx) == tx.type \in {"buy", "airdrop", "reward", "mining"}
C4_IsDisposition(tx) == tx.type \in {"sell", "swap", "transfer"} /\ tx.amount < 0
C4_Counts(tx) == C4_IsAcquisition(tx) \/ C4_IsDisposition(tx)
C4_OfToken(symbol) ==
    LET Same(tx) == tx.tokenSymbol = symbol IN SelectSeq(transactions, Same)
C4_Ids(txs) == {txs[k].id : k \in DOMAIN txs}

C4_Classification ==
    cbPc = "done" =>
        \A i \in DOMAIN results :
            LET r == results[i]
                txs == C4_OfToken(r.tokenSymbol)
                acq == SelectSeq(txs, C4_IsAcquisition)
                disp == SelectSeq(txs, C4_IsDisposition)
            IN  /\ r.totalAcquired = Sum(AbsAmounts(acq))
                /\ r.totalDisposed = Sum(AbsAmounts(disp))
                /\ r.remainingQuantity = r.totalAcquired - r.totalDisposed
                /\ {r.entries[k].transactionId : k \in LotEntries(r.entries)}
                      = C4_Ids(acq)
                /\ Cardinality(LotEntries(r.entries)) = Len(acq)
                /\ \A k \in DispEntries(r.entries) :
                      r.entries[k].transactionId \in C4_Ids(disp)
                \* dropping the other transactions changes nothing
                /\ r = CalculateTokenCostBasis(r.tokenSymbol,
                                                SelectSeq(txs, C4_Counts), method)

\* C4 witness: an incoming (non-negative) sell/swap/transfer next to a buy and
\* an outgoing sell of the same token that has consumed the lot.
C4_Witness ==
    /\ cbPc = "done"
    /\ \E k \in DOMAIN transactions :
          /\ transactions[k].type \in DispositionTypes
          /\ transactions[k].amount >= 0
          /\ transactions[k].tokenSymbol = "ETH"
    /\ \E i \in DOMAIN results :
          /\ results[i].tokenSymbol = "ETH"
          /\ results[i].totalAcquired = 1
          /\ results[i].totalDisposed = 1
          /\ DispEntries(results[i].entries) # {}

\* C5: the result of a token is the one computed from the batch restricted to
\* that token's transactions; there is one result per token of the batch.
C5_TokenIsolation ==
    cbPc = "done" =>
        /\ \A i \in DOMAIN results :
              CalculateCostBasisOf(C4_OfToken(results[i].tokenSymbol), method)
                 = <<results[i]>>
        /\ {results[i].tokenSymbol : i \in DOMAIN results}
              = {transactions[k].tokenSymbol : k \in DOMAIN transactions}
        /\ \A i \in DOMAIN results : \A j \in DOMAIN results :
              results[i].tokenSymbol = results[j].tokenSymbol => i = j

\* C5 witness: a transaction of another token sits between a token's buy and
\* its sell, and both tokens have a result.
C5_Witness ==
    /\ cbPc = "done"
    /\ Len(transactions) = 3
    /\ transactions[1].tokenSymbol = "ETH" /\ transactions[1].type = "buy"
    /\ transactions[2].tokenSymbol = "USDC"
    /\ transactions[3].tokenSymbol = "ETH" /\ IsDisposition(transactions[3])
    /\ Len(results) = 2
    /\ DispEntries(results[1].entries) # {}

\* C6: dispositions of a token are matched in input order: every consumption
\* of an earlier-listed disposition precedes every consumption of a later-listed
\* one, whatever their timestamps.
C6_DispositionsInInputOrder ==
    \A i \in DOMAIN consumptions : \A j \in DOMAIN consumptions :
        (/\ i < j
         /\ transactions[consumptions[i].disposition].tokenSymbol
              = transactions[consumptions[j].disposition].tokenSymbol)
        => consumptions[i].disposition <= consumptions[j].disposition

\* C6 witness: two dispositions have consumed lots, and the one listed second
\* has the earlier timestamp.
C6_Witness ==
    \E i \in DOMAIN consumptions : \E j \in DOMAIN consumptions :
        /\ i < j
        /\ consumptions[i].disposition < consumptions[j].disposition
        /\ transactions[consumptions[j].disposition].timestamp
             < transactions[consumptions[i].disposition].timestamp

\* Until calculateCostBasis has returned a next step exists: the method is
\* entered, a token is begun or the results are returned, a disposition is
\* begun or the token is finished, and in the matching loop one of its
\* branches or its exit can be taken.
C7_NotStuck ==
    /\ cbPc \in {"start", "token", "disposition", "match", "done"}
    /\ cbPc = "token" => tokenQueue # <<>> \/ ENABLED ReturnResults
    /\ cbPc = "disposition" =>
          ENABLED NextDisposition \/ dispositionIndex > Len(dispositions)
    /\ cbPc = "match" =>
          ENABLED (SkipDisposed \/ UseEntireAcquisition \/ UsePartialAcquisition
                   \/ EndMatching)

\* C7: calculateCostBasis terminates and raises no error on every input: until
\* it has returned a next step exists, the while body runs at most
\* Len(entries) + Len(dispositions) times per token while entries grows by at
\* most one entry per lot and per disposition, and the for-of loop is bounded
\* by the dispositions; under over-disposal the matching stops once every lot
\* is consumed, and the unmatched excess produces no disposition entry.
C7_OverDisposal ==
    cbPc = "done" =>
        \A i \in DOMAIN results :
            LET r == results[i]
                es == r.entries
            IN  r.totalDisposed > r.totalAcquired =>
                  /\ \A k \in LotEntries(es) : es[k].isDisposed
                  /\ Sum([k \in 1..Len(es) |->
                            IF IsLot(es[k]) THEN 0 ELSE -es[k].amount])
                        = r.totalAcquired

C7_Terminates ==
    /\ C7_NotStuck
    /\ iterations <= Len(entries) + Len(dispositions)
    /\ acquisitionIndex <= Len(entries)
    /\ Len(entries) <= 2 * Cardinality(LotEntries(entries)) + Len(dispositions)
    /\ dispositionIndex <= Len(dispositions) + 1
    /\ C7_OverDisposal

\* C7 witness: more was disposed than acquired, the run is over, and the loop
\* has walked over entries appended during the matching.
C7_Witness ==
    /\ cbPc = "done"
    /\ Len(results) = 1
    /\ results[1].totalDisposed > results[1].totalAcquired
    /\ results[1].totalAcquired > 0
    /\ acquisitionIndex > Cardinality(LotEntries(entries))

(***************************************************************************)
(* Part II.  EthereumAdapter.getTransactions.                              *)
(*                                                                         *)
(* The chain is a list of the transactions that emitted Transfer logs      *)
(* involving the address, in block order.  A log is "out" when the address *)
(* is its sender (topic 1), "in" when it is its recipient (topic 2) and    *)
(* "self" when it is both.  detail says what the provider answers when the *)
(* transaction is looked up: "ok", "missing" (getTransaction or            *)
(* getTransactionReceipt gives null) or "error" (the lookup throws).       *)
(***************************************************************************)
LOG_CHUNK_BLOCKS == 1000
LOG_FETCH_RETRIES == 3
RETRY_DELAY_MS == 750
PROVIDER_CONCURRENCY == 5
\* options.limit ?? Number.POSITIVE_INFINITY: the absent limit
NoLimit == -1

Sides == {"sender", "receiver"}

\* Errors: the class name and the message, the message as the list of its
\* parts.  ProviderError is what the provider throws.  NoError above has the
\* same shape.
ProviderError(message) == [name |-> "Error", message |-> <<message>>]
\* BlockchainError and its subclasses
RateLimitError == [name |-> "RateLimitError", message |-> <<"Rate limit exceeded for ethereum">>]
NetworkError(message) ==
    [name |-> "NetworkError", message |-> <<"Network error on ethereum: ">> \o message]
IsBlockchainError(error) ==
    error.name \in {"BlockchainError", "RateLimitError", "NetworkError", "InvalidAddressError"}
\* message.includes(text)
Includes(message, text) == \E i \in DOMAIN message : message[i] = text

MutCatchWraps(error) ==
    IF Includes(error.message, "rate limit") THEN RateLimitError
    ELSE NetworkError(error.message)

\* lines 291-300: the catch of getTransactions
Catch(error) ==
    IF IsBlockchainError(error) THEN error
    ELSE IF Includes(error.message, "rate limit") THEN RateLimitError
    ELSE NetworkError(error.message)

\* lines 500-513: the catch of fetchLogsWithRetry for an error that is not a
\* rate limit
FetchError(error) ==
    IF Includes(error.message, "range is too large")
    THEN NetworkError(<<"Block range too large for provider">>)
    ELSE IF error.message = <<"">> THEN NetworkError(<<"Failed to fetch logs">>)
    ELSE NetworkError(error.message)

\* lines 256-262: the catch of a transaction lookup
LookupError(error) ==
    IF Includes(error.message, "rate limit") THEN RateLimitError
    ELSE NetworkError(error.message)
Min(a, b) == IF a < b THEN a ELSE b
Max(a, b) == IF a > b THEN a ELSE b

\* processed.size < limit
BelowLimit(size, lim) == lim = NoLimit \/ size < lim

\* the topics filter of a side matches a log
Matches(side, role) ==
    IF side = "sender" THEN role \in {"out", "self"} ELSE role \in {"in", "self"}

\* the logs of one transaction that a side's filter matches, as the provider
\* returns them
RECURSIVE TxLogs(_, _, _)
TxLogs(tx, side, k) ==
    IF k > Len(tx.logs) THEN <<>>
    ELSE (IF Matches(side, tx.logs[k])
          THEN <<[transactionHash |-> tx.hash, blockNumber |-> tx.blockNumber,
                  logIndex |-> k, role |-> tx.logs[k]]>>
          ELSE <<>>)
         \o TxLogs(tx, side, k + 1)

\* provider.getLogs({fromBlock, toBlock, topics}) on the chain c
RECURSIVE GetLogs(_, _, _, _)
GetLogs(c, side, from, to) ==
    IF c = <<>> THEN <<>>
    ELSE (IF from <= Head(c).blockNumber /\ Head(c).blockNumber <= to
          THEN TxLogs(Head(c), side, 1) ELSE <<>>)
         \o GetLogs(Tail(c), side, from, to)

\* lines 174-179: file one log under its transaction hash
GroupLog(grouped, log) ==
    IF \E i \in DOMAIN grouped : grouped[i].hash = log.transactionHash
    THEN LET i == CHOOSE i \in DOMAIN grouped : grouped[i].hash = log.transactionHash
         IN  [grouped EXCEPT ![i].logs = Append(@, log)]
    ELSE Append(grouped, [hash |-> log.transactionHash, logs |-> <<log>>])

\* lines 160-180: [...senderLogs, ...receiverLogs].forEach(...)
RECURSIVE GroupLogs(_, _)
GroupLogs(grouped, logs) ==
    IF logs = <<>> THEN grouped
    ELSE GroupLogs(GroupLog(grouped, Head(logs)), Tail(logs))

LogsFor(grouped, hash) ==
    LET i == CHOOSE i \in DOMAIN grouped : grouped[i].hash = hash
    IN  grouped[i].logs

Keys(map) == [i \in DOMAIN map |-> map[i].hash]
MutHasNever(map, hash) == FALSE
Has(map, hash) == \E i \in DOMAIN map : map[i].hash = hash

\* line 182
NewHashes(grouped, done) ==
    LET Fresh(h) == ~Has(done, h) IN SelectSeq(Keys(grouped), Fresh)

MutChunkArrayWhole(values, size) == <<values>>

\* chunkArray
RECURSIVE ChunkArray(_, _)
ChunkArray(values, size) ==
    IF size <= 0 THEN <<values>>
    ELSE IF values = <<>> THEN <<>>
    ELSE <<SubSeq(values, 1, Min(size, Len(values)))>>
         \o ChunkArray(SubSeq(values, Min(size, Len(values)) + 1, Len(values)), size)

TxOf(c, hash) == c[CHOOSE i \in DOMAIN c : c[i].hash = hash]

\* lines 234-255: block.timestamp * 1000, the block's time being its number
RawTx(c, grouped, hash) ==
    [hash |-> hash, blockNumber |-> TxOf(c, hash).blockNumber,
     timestamp |-> TxOf(c, hash).blockNumber * 1000,
     logs |-> LogsFor(grouped, hash)]

\* processed.set(result.hash, result)
MapSet(map, value) ==
    IF Has(map, value.hash)
    THEN [map EXCEPT ![CHOOSE i \in DOMAIN map : map[i].hash = value.hash] = value]
    ELSE Append(map, value)

\* lines 266-273: the results of one batch are stored, up to the limit
RECURSIVE StoreResults(_, _, _, _, _)
StoreResults(c, grouped, done, batch, lim) ==
    IF batch = <<>> THEN done
    ELSE IF TxOf(c, Head(batch)).detail # "ok"
         THEN StoreResults(c, grouped, done, Tail(batch), lim)
    ELSE LET next == MapSet(done, RawTx(c, grouped, Head(batch)))
         IN  IF ~BelowLimit(Len(next), lim) THEN next
             ELSE StoreResults(c, grouped, next, Tail(batch), lim)

\* lines 185-274: the batches of one chunk; a lookup that throws rejects the
\* Promise.all of its batch, and with it the call
RECURSIVE ProcessBatches(_, _, _, _, _)
ProcessBatches(c, grouped, done, batches, lim) ==
    IF batches = <<>> \/ ~BelowLimit(Len(done), lim)
    THEN [processed |-> done, error |-> NoError]
    ELSE IF \E k \in DOMAIN Head(batches) : TxOf(c, Head(batches)[k]).detail = "error"
         THEN [processed |-> done, error |-> LookupError(ProviderError("timeout"))]
    ELSE ProcessBatches(c, grouped, StoreResults(c, grouped, done, Head(batches), lim),
                        Tail(batches), lim)

MutChunkEndShort(start, effectiveTo) == Min(start + LOG_CHUNK_BLOCKS - 2, effectiveTo)

ChunkEnd(start, effectiveTo) == Min(start + LOG_CHUNK_BLOCKS - 1, effectiveTo)

MutNextChunkStartSkips(start) == start + LOG_CHUNK_BLOCKS + 1

\* line 143: chunkStart += LOG_CHUNK_BLOCKS
NextChunkStart(start) == start + LOG_CHUNK_BLOCKS
EffectiveFrom(from, to) == Max(Min(from, to), 0)

\* lines 160-274: one chunk, given the logs of its two queries
ProcessLogs(c, grouped, done, senderLogs, receiverLogs, lim) ==
    LET g == GroupLogs(grouped, senderLogs \o receiverLogs)
        r == ProcessBatches(c, g, done,
                            ChunkArray(NewHashes(g, done), PROVIDER_CONCURRENCY), lim)
    IN  [groupedLogs |-> g, processed |-> r.processed, error |-> r.error]

\* lines 277-283: sort by (blockNumber, timestamp), stable
RawCompare(a, b) ==
    IF a.blockNumber # b.blockNumber THEN a.blockNumber - b.blockNumber
    ELSE a.timestamp - b.timestamp

RECURSIVE InsertRaw(_, _)
InsertRaw(sorted, tx) ==
    IF sorted = <<>> THEN <<tx>>
    ELSE IF RawCompare(tx, Head(sorted)) < 0 THEN <<tx>> \o sorted
    ELSE <<Head(sorted)>> \o InsertRaw(Tail(sorted), tx)

RECURSIVE SortRaw(_, _)
SortRaw(sorted, rest) ==
    IF rest = <<>> THEN sorted ELSE SortRaw(InsertRaw(sorted, Head(rest)), Tail(rest))

\* Array.prototype.slice(start, end) for 0 <= start
Slice(values, start, end) ==
    SubSeq(values, Min(start, Len(values)) + 1, Min(Max(end, start), Len(values)))

\* lines 277-290
Page(done, lim, off) ==
    LET txs == SortRaw(<<>>, done)
    IN  IF lim # NoLimit THEN Slice(txs, off, off + lim)
        ELSE Slice(txs, off, Len(txs))

\* The chunk loop run to its end when no getLogs call fails
RECURSIVE ChunkLoop(_, _, _, _, _, _)
ChunkLoop(c, start, effectiveTo, lim, grouped, done) ==
    IF ~(start <= effectiveTo /\ BelowLimit(Len(done), lim))
    THEN [processed |-> done, error |-> NoError]
    ELSE LET end == ChunkEnd(start, effectiveTo)
             r == ProcessLogs(c, grouped, done, GetLogs(c, "sender", start, end),
                              GetLogs(c, "receiver", start, end), lim)
         IN  IF r.error # NoError THEN [processed |-> r.processed, error |-> r.error]
             ELSE ChunkLoop(c, NextChunkStart(start), effectiveTo, lim,
                            r.groupedLogs, r.processed)

\* getTransactions on a provider whose getLogs never fails
GetTransactionsOf(c, from, to, lim, off) ==
    LET r == ChunkLoop(c, EffectiveFrom(from, to), to, lim, <<>>, <<>>)
    IN  IF r.error # NoError THEN [error |-> Catch(r.error), transactions |-> <<>>]
        ELSE [error |-> NoError, transactions |-> Page(r.processed, lim, off)]

(***************************************************************************)
(* getTransactions as a process.  The two fetchLogsWithRetry calls of a    *)
(* chunk run concurrently (Promise.all); each is at one of: "calling" (a   *)
(* provider.getLogs request is in flight), "sleeping" (the back-off delay  *)
(* before a retry), "resolved", "rejected".  outcomes lists the answers   *)
(* of the getLogs requests for the filter ("ok", "rate limit" or the       *)
(* message of another error), delays lists the sleeps.                     *)
(***************************************************************************)
IdleFetch ==
    [status |-> "idle", attempt |-> 0, outcomes |-> <<>>, delays |-> <<>>,
     logs |-> <<>>, error |-> NoError, fromBlock |-> -1, toBlock |-> -1]

NewFetch == [IdleFetch EXCEPT !.status = "calling"]

\* lines 147-157: the filter of a query
FetchLogs(start, end) == [NewFetch EXCEPT !.fromBlock = start, !.toBlock = end]

\* lines 126-138 (fromBlock and toBlock are given as numbers)
GetTransactions ==
    /\ ethPc = "start"
    /\ chunkStart' = EffectiveFrom(fromBlock, toBlock)
    /\ groupedLogs' = <<>>
    /\ processed' = <<>>
    /\ ethPc' = "loop"
    /\ UNCHANGED <<chain, fromBlock, toBlock, limit, offset, fetch, rateLimitsLeft,
                   faultsLeft, ethError, ethResult>>
    /\ UNCHANGED nonEthVars

\* lines 140-158: the loop condition holds, the two log queries are issued
BeginChunk ==
    /\ ethPc = "loop"
    /\ chunkStart <= toBlock
    /\ BelowLimit(Len(processed), limit)
    /\ fetch' = [sender |-> FetchLogs(chunkStart, ChunkEnd(chunkStart, toBlock)),
                 receiver |-> FetchLogs(chunkStart, ChunkEnd(chunkStart, toBlock))]
    /\ ethPc' = "logs"
    /\ UNCHANGED <<chain, fromBlock, toBlock, limit, offset, chunkStart, groupedLogs,
                   processed, rateLimitsLeft, faultsLeft, ethError, ethResult>>
    /\ UNCHANGED nonEthVars

MutFetchResolvedEmptyAfterRetry(f, logs) ==
    [f EXCEPT !.status = "resolved", !.outcomes = Append(@, "ok"),
              !.logs = IF f.attempt > 0 THEN <<>> ELSE logs]

\* line 499: return await provider.getLogs(filter)
FetchResolved(f, logs) ==
    [f EXCEPT !.status = "resolved", !.outcomes = Append(@, "ok"), !.logs = logs]

\* line 499: provider.getLogs answers with the logs of the window
GetLogsResolves(side) ==
    /\ fetch[side].status = "calling"
    /\ fetch' = [fetch EXCEPT ![side] =
                    FetchResolved(fetch[side],
                                  GetLogs(chain, side, fetch[side].fromBlock,
                                          fetch[side].toBlock))]
    /\ UNCHANGED <<chain, fromBlock, toBlock, limit, offset, chunkStart, groupedLogs,
                   processed, rateLimitsLeft, faultsLeft, ethPc, ethError, ethResult>>
    /\ UNCHANGED nonEthVars

\* the rejection of one query rejects Promise.all and, through the catch of
\* lines 291-294, the call, unless the call was already rejected
Rejects(error) ==
    IF ethPc = "logs"
    THEN ethPc' = "rejected" /\ ethError' = Catch(error)
    ELSE UNCHANGED <<ethPc, ethError>>

\* lines 500-509: a rate-limit error; retry after RETRY_DELAY_MS * attempt, or
\* give up once attempt exceeds retries
MutFetchGivesUpEarly(f) ==
    IF f.attempt + 1 >= LOG_FETCH_RETRIES
    THEN [f EXCEPT !.attempt = @ + 1, !.outcomes = Append(@, "rate limit"),
                   !.status = "rejected", !.error = RateLimitError]
    ELSE [f EXCEPT !.attempt = @ + 1, !.outcomes = Append(@, "rate limit"),
                   !.status = "sleeping",
                   !.delays = Append(@, RETRY_DELAY_MS * (f.attempt + 1))]

FetchAfterRateLimit(f) ==
    IF f.attempt + 1 > LOG_FETCH_RETRIES
    THEN [f EXCEPT !.attempt = @ + 1, !.outcomes = Append(@, "rate limit"),
                   !.status = "rejected", !.error = RateLimitError]
    ELSE [f EXCEPT !.attempt = @ + 1, !.outcomes = Append(@, "rate limit"),
                   !.status = "sleeping",
                   !.delays = Append(@, RETRY_DELAY_MS * (f.attempt + 1))]

GetLogsRateLimited(side) ==
    /\ fetch[side].status = "calling"
    /\ rateLimitsLeft > 0
    /\ rateLimitsLeft' = rateLimitsLeft - 1
    /\ fetch' = [fetch EXCEPT ![side] = FetchAfterRateLimit(fetch[side])]
    /\ IF fetch'[side].status = "rejected"
       THEN Rejects(fetch'[side].error)
       ELSE UNCHANGED <<ethPc, ethError>>
    /\ UNCHANGED <<chain, fromBlock, toBlock, limit, offset, chunkStart, groupedLogs,
                   processed, faultsLeft, ethResult>>
    /\ UNCHANGED nonEthVars

\* line 507: the delay is over, the loop calls getLogs again
SleepEnds(side) ==
    /\ fetch[side].status = "sleeping"
    /\ fetch' = [fetch EXCEPT ![side].status = "calling"]
    /\ UNCHANGED <<chain, fromBlock, toBlock, limit, offset, chunkStart, groupedLogs,
                   processed, rateLimitsLeft, faultsLeft, ethPc, ethError, ethResult>>
    /\ UNCHANGED nonEthVars

\* what getLogs throws when it fails without a rate limit: the message
LogFaults == {"range is too large", "timeout", ""}

\* lines 510-513: 'range is too large' or any other error: NetworkError at once
FetchAfterFault(f, message) ==
    [f EXCEPT !.status = "rejected", !.outcomes = Append(@, message),
              !.error = FetchError(ProviderError(message))]

GetLogsFails(side) ==
    /\ fetch[side].status = "calling"
    /\ faultsLeft > 0
    /\ faultsLeft' = faultsLeft - 1
    /\ \E message \in LogFaults :
          fetch' = [fetch EXCEPT ![side] = FetchAfterFault(fetch[side], message)]
    /\ Rejects(fetch'[side].error)
    /\ UNCHANGED <<chain, fromBlock, toBlock, limit, offset, chunkStart, groupedLogs,
                   processed, rateLimitsLeft, ethResult>>
    /\ UNCHANGED nonEthVars

\* lines 160-275: both queries resolved; group the logs, look the new
\* transactions up batch by batch, go to the next chunk
ProcessChunk ==
    /\ ethPc = "logs"
    /\ fetch.sender.status = "resolved"
    /\ fetch.receiver.status = "resolved"
    /\ LET r == ProcessLogs(chain, groupedLogs, processed, fetch.sender.logs,
                            fetch.receiver.logs, limit)
       IN  /\ groupedLogs' = r.groupedLogs
           /\ processed' = r.processed
           /\ IF r.error # NoError
              THEN /\ ethPc' = "rejected"
                   /\ ethError' = Catch(r.error)
                   /\ UNCHANGED chunkStart
              ELSE /\ ethPc' = "loop"
                   /\ chunkStart' = NextChunkStart(chunkStart)
                   /\ UNCHANGED ethError
    /\ UNCHANGED <<chain, fromBlock, toBlock, limit, offset, fetch, rateLimitsLeft,
                   faultsLeft, ethResult>>
    /\ UNCHANGED nonEthVars

\* lines 277-290: the loop condition fails; sort, page, return
ReturnTransactions ==
    /\ ethPc = "loop"
    /\ ~(chunkStart <= toBlock /\ BelowLimit(Len(processed), limit))
    /\ ethResult' = Page(processed, limit, offset)
    /\ ethPc' = "done"
    /\ UNCHANGED <<chain, fromBlock, toBlock, limit, offset, chunkStart, groupedLogs,
                   processed, fetch, rateLimitsLeft, faultsLeft, ethError>>
    /\ UNCHANGED nonEthVars

EthNext ==
    \/ GetTransactions
    \/ BeginChunk
    \/ \E side \in Sides : GetLogsResolves(side)
    \/ \E side \in Sides : GetLogsRateLimited(side)
    \/ \E side \in Sides : SleepEnds(side)
    \/ \E side \in Sides : GetLogsFails(side)
    \/ ProcessChunk
    \/ ReturnTransactions

(***************************************************************************)
(* Inputs.  Blocks on both sides of the chunk boundaries of a range that   *)
(* starts at block 0 or at block LOG_CHUNK_BLOCKS; transactions whose logs *)
(* name the address as sender, as recipient or as both; a transaction the  *)
(* provider does not find and one whose lookup throws.                     *)
(***************************************************************************)
ChainTx(block, logs, detail) ==
    [blockNumber |-> block, logs |-> logs, detail |-> detail]

ChainShapes ==
    {ChainTx(0, <<"out">>, "ok"),
     ChainTx(LOG_CHUNK_BLOCKS - 1, <<"in">>, "ok"),
     ChainTx(LOG_CHUNK_BLOCKS - 1, <<"out", "in">>, "ok"),
     ChainTx(LOG_CHUNK_BLOCKS, <<"out">>, "ok"),
     ChainTx(LOG_CHUNK_BLOCKS, <<"self">>, "ok"),
     ChainTx(LOG_CHUNK_BLOCKS, <<"out">>, "missing"),
     ChainTx(2 * LOG_CHUNK_BLOCKS - 1, <<"in">>, "ok"),
     ChainTx(2 * LOG_CHUNK_BLOCKS - 1, <<"in">>, "error"),
     ChainTx(2 * LOG_CHUNK_BLOCKS, <<"out">>, "ok")}

\* the transactions of a chain are told apart by their hash
Chains ==
    UNION {{[i \in 1..n |-> [hash |-> i, blockNumber |-> f[i].blockNumber,
                             logs |-> f[i].logs, detail |-> f[i].detail]] :
               f \in {g \in [1..n -> ChainShapes] :
                        \A i \in 1..n, j \in 1..n :
                            i < j => g[i].blockNumber <= g[j].blockNumber}} :
           n \in 0..MaxChainTxs}

FromBlocks == {0, LOG_CHUNK_BLOCKS}
ToBlocks == {LOG_CHUNK_BLOCKS - 1, 2 * LOG_CHUNK_BLOCKS}

InitEth ==
    /\ chain \in Chains
    /\ fromBlock \in FromBlocks
    /\ toBlock \in ToBlocks
    /\ limit = NoLimit
    /\ offset = 0
    /\ chunkStart = 0
    /\ groupedLogs = <<>>
    /\ processed = <<>>
    /\ fetch = [sender |-> IdleFetch, receiver |-> IdleFetch]
    /\ rateLimitsLeft = MaxRateLimits
    /\ faultsLeft = MaxFaults
    /\ ethPc = "start"
    /\ ethError = NoError
    /\ ethResult = <<>>
    /\ CBIdle
    /\ AuxIdle

SpecEth == InitEth /\ [][EthNext]_vars

(***************************************************************************)
(* Properties of getTransactions.                                          *)
(***************************************************************************)
Hashes(txs) == {txs[i].hash : i \in DOMAIN txs}

NoDuplicateHashes(txs) ==
    \A i \in DOMAIN txs, j \in DOMAIN txs : txs[i].hash = txs[j].hash => i = j

\* the blocks at which a range is cut in two: first, middle and last block of
\* the chunks of a range that starts at block 0
MidBlocks ==
    {0, LOG_CHUNK_BLOCKS \div 2 - 1, LOG_CHUNK_BLOCKS - 2, LOG_CHUNK_BLOCKS - 1,
     LOG_CHUNK_BLOCKS, LOG_CHUNK_BLOCKS + LOG_CHUNK_BLOCKS \div 2 - 1,
     2 * LOG_CHUNK_BLOCKS - 2, 2 * LOG_CHUNK_BLOCKS - 1}

C8_Lower(mid) == GetTransactionsOf(chain, fromBlock, mid, NoLimit, 0)
C8_Upper(mid) == GetTransactionsOf(chain, mid + 1, toBlock, NoLimit, 0)

C8_SplitAt(mid) ==
    /\ C8_Lower(mid).error = NoError
    /\ C8_Upper(mid).error = NoError
    /\ Hashes(ethResult) = Hashes(C8_Lower(mid).transactions)
                               \cup Hashes(C8_Upper(mid).transactions)
    /\ Hashes(C8_Lower(mid).transactions) \cap Hashes(C8_Upper(mid).transactions) = {}
    /\ NoDuplicateHashes(ethResult)

\* C8: when getTransactions over [fromBlock, toBlock] has returned, with no
\* limit and no offset, then for every mid with fromBlock <= mid < toBlock the
\* set of the returned hashes is the union of the sets returned over
\* [fromBlock, mid] and over [mid + 1, toBlock] on the same chain; no hash is
\* in both parts and none is returned twice.
C8_RangeSplit ==
    (ethPc = "done" /\ limit = NoLimit /\ offset = 0) =>
        \A mid \in MidBlocks :
            (fromBlock <= mid /\ mid < toBlock) => C8_SplitAt(mid)

\* C8 witness: a call over [0, 2 * LOG_CHUNK_BLOCKS] has returned the
\* transactions of the last block of the first chunk and of the first block of
\* the second; cut in the middle of the first chunk, both parts start their
\* chunks elsewhere and the upper part returns both.
C8_Witness ==
    /\ ethPc = "done"
    /\ fromBlock = 0
    /\ toBlock = 2 * LOG_CHUNK_BLOCKS
    /\ Len(ethResult) = 2
    /\ ethResult[1].blockNumber = LOG_CHUNK_BLOCKS - 1
    /\ ethResult[2].blockNumber = LOG_CHUNK_BLOCKS
    /\ Len(C8_Upper(LOG_CHUNK_BLOCKS \div 2 - 1).transactions) = 2
    /\ Len(C8_Lower(LOG_CHUNK_BLOCKS - 1).transactions) = 1

FailureFree == GetTransactionsOf(chain, fromBlock, toBlock, limit, offset)

\* the getLogs call failed k times with a rate limit, 1 <= k <= LOG_FETCH_RETRIES,
\* and then succeeded
RetriedThenOk(f) ==
    /\ Len(f.outcomes) >= 2
    /\ Len(f.outcomes) <= LOG_FETCH_RETRIES + 1
    /\ f.outcomes[Len(f.outcomes)] = "ok"
    /\ \A i \in 1..(Len(f.outcomes) - 1) : f.outcomes[i] = "rate limit"

C9_RetriedFetch(side) ==
    (ethPc = "logs" /\ RetriedThenOk(fetch[side])) =>
        /\ fetch[side].status = "resolved"
        /\ fetch[side].logs = GetLogs(chain, side, chunkStart, ChunkEnd(chunkStart, toBlock))

\* the call is rejected only for a query that failed for good or for a lookup
\* that threw
C9_Rejected ==
    ethPc = "rejected" =>
        \/ \E side \in Sides :
              /\ fetch[side].status = "rejected"
              /\ fetch[side].error = ethError
              /\ ~RetriedThenOk(fetch[side])
              /\ \/ fetch[side].outcomes[Len(fetch[side].outcomes)] \in LogFaults
                 \/ Len(fetch[side].outcomes) > LOG_FETCH_RETRIES
        \/ /\ fetch.sender.status = "resolved"
           /\ fetch.receiver.status = "resolved"
           /\ FailureFree.error = ethError

\* while no query has failed for good, the call waits for an answer or a
\* delay, or has both answers and processes them
C9_GoesOn ==
    ethPc = "logs" =>
        \/ \E side \in Sides : fetch[side].status \in {"calling", "sleeping"}
        \/ \A side \in Sides : fetch[side].status = "resolved"

\* C9: a getLogs query that fails k times with a rate limit (1 <= k <=
\* LOG_FETCH_RETRIES) and then succeeds resolves to the logs of its window,
\* the call goes on (it is rejected only for a query that failed for good or
\* a lookup that threw), and the list it returns is the list of the run in
\* which no getLogs call fails.
C9_RateLimitRetry ==
    /\ \A side \in Sides : C9_RetriedFetch(side)
    /\ C9_Rejected
    /\ C9_GoesOn
    /\ ethPc = "done" =>
          /\ FailureFree.error = NoError
          /\ ethResult = FailureFree.transactions

\* C9 witness: the call has returned a transaction after a query of its last
\* chunk failed LOG_FETCH_RETRIES times with a rate limit and then succeeded.
C9_Witness ==
    /\ ethPc = "done"
    /\ ethResult # <<>>
    /\ ethResult[Len(ethResult)].blockNumber = toBlock
    /\ \E side \in Sides :
          /\ RetriedThenOk(fetch[side])
          /\ Len(fetch[side].outcomes) = LOG_FETCH_RETRIES + 1
          /\ fetch[side].logs # <<>>

C10_AllRateLimited(f) ==
    /\ Len(f.outcomes) = 1 + LOG_FETCH_RETRIES
    /\ \A i \in DOMAIN f.outcomes : f.outcomes[i] = "rate limit"

C10_Fetch(f) ==
    /\ Len(f.outcomes) <= 1 + LOG_FETCH_RETRIES
    /\ \A i \in DOMAIN f.delays :
          /\ f.delays[i] = RETRY_DELAY_MS * i
          /\ i > 1 => f.delays[i] > f.delays[i - 1]
          /\ f.outcomes[i] = "rate limit"
    /\ f.status \in {"calling", "sleeping"} => Len(f.delays) = Len(f.outcomes)
    /\ f.status = "resolved" => Len(f.delays) = Len(f.outcomes) - 1
    /\ (f.status = "rejected" /\ f.error.name = "NetworkError") =>
          Len(f.delays) = Len(f.outcomes) - 1
    /\ (f.status = "rejected" /\ f.error = RateLimitError) <=> C10_AllRateLimited(f)

C11_Expected(message) ==
    IF message = "range is too large"
    THEN [name |-> "NetworkError",
          message |-> <<"Network error on ethereum: ", "Block range too large for provider">>]
    ELSE IF message = ""
    THEN [name |-> "NetworkError",
          message |-> <<"Network error on ethereum: ", "Failed to fetch logs">>]
    ELSE [name |-> "NetworkError", message |-> <<"Network error on ethereum: ", message>>]

C11_Fetch(f) ==
    \A i \in DOMAIN f.outcomes :
        f.outcomes[i] \in LogFaults =>
            /\ i = Len(f.outcomes)
            /\ f.status = "rejected"
            /\ f.error = C11_Expected(f.outcomes[i])
            /\ Len(f.delays) = i - 1
            /\ \A k \in 1..(i - 1) : f.outcomes[k] = "rate limit"
            /\ ethPc = "rejected"
            /\ ethError \in {fetch[s].error : s \in {t \in Sides : fetch[t].status = "rejected"}}

C12_Fetchable ==
    {chain[i].hash : i \in {k \in DOMAIN chain :
                               /\ chain[k].detail = "ok"
                               /\ EffectiveFrom(fromBlock, toBlock) <= chain[k].blockNumber
                               /\ chain[k].blockNumber <= toBlock}}

\* C12: when no log query has failed, a transaction whose lookup fails is
\* skipped: getTransactions is not rejected, and once it has returned, without
\* limit and offset, it has returned every transaction of the range whose
\* lookup succeeds.
C12_FailedLookupIsSkipped ==
    (\A side \in Sides : fetch[side].status # "rejected") =>
        /\ ethPc # "rejected"
        /\ (ethPc = "done" /\ limit = NoLimit /\ offset = 0) =>
              Hashes(ethResult) = C12_Fetchable

(***************************************************************************)
(* Paged calls: getTransactions over [0, 2 * LOG_CHUNK_BLOCKS] with a      *)
(* limit and an offset, on a provider that raises at most one rate limit   *)
(* and one other getLogs error.                                            *)
(***************************************************************************)
Limits == {1, 2}
Offsets == {0, 1}

InitPage ==
    /\ chain \in Chains
    /\ fromBlock = 0
    /\ toBlock = 2 * LOG_CHUNK_BLOCKS
    /\ limit \in Limits
    /\ offset \in Offsets
    /\ chunkStart = 0
    /\ groupedLogs = <<>>
    /\ processed = <<>>
    /\ fetch = [sender |-> IdleFetch, receiver |-> IdleFetch]
    /\ rateLimitsLeft = 1
    /\ faultsLeft = 1
    /\ ethPc = "start"
    /\ ethError = NoError
    /\ ethResult = <<>>
    /\ CBIdle
    /\ AuxIdle

SpecPage == InitPage /\ [][EthNext]_vars

\* the full result of the range, in (blockNumber, timestamp) order
C13_Full == GetTransactionsOf(chain, fromBlock, toBlock, NoLimit, 0).transactions

\* C13: a call with limit L and offset O that has returned has returned the
\* transactions at positions O .. O+L-1 of the full ordered result of the
\* same range, hence at most L of them.
C13_Page ==
    (ethPc = "done" /\ limit # NoLimit) =>
        /\ Len(ethResult) <= limit
        /\ ethResult = Slice(C13_Full, offset, offset + limit)

\* C14: no hash occurs twice among the transactions collected so far, and
\* none occurs twice in the list getTransactions returns.
C14_NoDuplicateHashes ==
    /\ NoDuplicateHashes(processed)
    /\ ethPc = "done" => NoDuplicateHashes(ethResult)

\* C14 witness: the call has returned two transactions after a second chunk
\* was processed with the first chunk's logs still grouped; the first one
\* emitted two matching logs, one found by the sender query and one by the
\* recipient query.
C14_Witness ==
    /\ ethPc = "done"
    /\ Len(ethResult) = 2
    /\ Len(ethResult[1].logs) = 2
    /\ ethResult[1].logs[1].role = "out"
    /\ ethResult[1].logs[2].role = "in"
    /\ ethResult[2].blockNumber >= fromBlock + LOG_CHUNK_BLOCKS
    /\ Len(groupedLogs) = 2

(***************************************************************************)
(* Part III.  The adapters' entry points: initialize, and the checks that  *)
(* getTransactions and getBalance make before anything else.  What the     *)
(* methods do after these checks is a network call whose answer is not     *)
(* looked at here.                                                         *)
(***************************************************************************)
AdapterChains == {"ethereum", "solana", "bitcoin"}

\* BlockchainConfig: rpcUrl and network
Configs == {[rpcUrl |-> "https://a", network |-> "mainnet"],
            [rpcUrl |-> "https://b", network |-> "testnet"]}

NoClient == [rpcUrl |-> "", network |-> ""]

\* An address, by what the validity checks look at: whether it is empty,
\* starts with 0x, its length, its alphabet, whether web3.PublicKey accepts it
\* and finds it on the curve, and the network for which
\* bitcoin.address.toOutputScript decodes it.
Address(has0x, length, body, publicKey, script) ==
    [has0x |-> has0x, length |-> length, body |-> body, publicKey |-> publicKey,
     script |-> script]

Addresses ==
    {Address(FALSE, 0, "hex", "invalid", "none"),
     Address(TRUE, 42, "hex", "invalid", "none"),
     Address(TRUE, 42, "other", "invalid", "none"),
     Address(TRUE, 40, "hex", "invalid", "none"),
     Address(FALSE, 44, "base58", "oncurve", "none"),
     Address(FALSE, 44, "base58", "offcurve", "none"),
     Address(FALSE, 31, "base58", "invalid", "none"),
     Address(FALSE, 34, "base58", "invalid", "mainnet"),
     Address(FALSE, 34, "base58", "invalid", "testnet")}

\* EthereumAdapter.isValidAddress
EthereumIsValidAddress(address) ==
    IF address.length = 0 \/ ~address.has0x \/ address.length # 42 THEN FALSE
    ELSE IF address.body # "hex" THEN FALSE
    ELSE TRUE

\* SolanaAdapter.isValidAddress
SolanaIsValidAddress(address) ==
    IF address.length = 0 \/ address.length < 32 \/ address.length > 44 THEN FALSE
    ELSE IF address.has0x THEN FALSE
    ELSE IF address.body # "base58" THEN FALSE
    ELSE IF address.publicKey = "invalid" THEN FALSE
    ELSE address.publicKey = "oncurve"

\* BitcoinAdapter.isValidAddress: this.network is mainnet until initialize
\* is given the testnet
BitcoinNetwork(adapter) ==
    IF adapter.client.network = "testnet" THEN "testnet" ELSE "mainnet"

BitcoinIsValidAddress(adapter, address) ==
    IF address.length = 0 THEN FALSE
    ELSE IF address.has0x THEN FALSE
    ELSE address.script = BitcoinNetwork(adapter)

IsValidAddress(a, address) ==
    IF a = "ethereum" THEN EthereumIsValidAddress(address)
    ELSE IF a = "solana" THEN SolanaIsValidAddress(address)
    ELSE BitcoinIsValidAddress(adapters[a], address)

NotInitialized == [name |-> "Error", message |-> <<"Adapter not initialized">>]
AlreadyInitialized == [name |-> "Error", message |-> <<"Adapter already initialized">>]
InvalidAddressError(a) ==
    [name |-> "InvalidAddressError", message |-> <<"Invalid ", a, " address">>]

Call(a, calledMethod, argument, error, networkCalls) ==
    [adapter |-> a, method |-> calledMethod, argument |-> argument, error |-> error,
     networkCalls |-> networkCalls]

\* a call that passes its checks goes to the network
Proceeds(a, calledMethod, address) == Call(a, calledMethod, address, NoError, 1)

FreshAdapter == [initialized |-> FALSE, client |-> NoClient]

\* !this.provider, !this.connection, !this.apiClient
HasClient(adapter) == adapter.client # NoClient

MutInitializeOverwrites(adapter, config) == [initialized |-> TRUE, client |-> config]

\* initialize(config): the state of the adapter after the call
AfterInitialize(adapter, config) ==
    IF adapter.initialized THEN adapter
    ELSE [initialized |-> TRUE, client |-> config]

Initialize(a, config) ==
    /\ callsMade < MaxCalls
    /\ callsMade' = callsMade + 1
    /\ adapters' = [adapters EXCEPT ![a] = AfterInitialize(adapters[a], config)]
    /\ lastCall' = Call(a, "initialize", config,
                        IF adapters[a].initialized THEN AlreadyInitialized ELSE NoError, 0)
    /\ UNCHANGED nonAdVars

\* getTransactions up to its first network call
GetTransactionsEntry(a, address) ==
    IF a = "bitcoin"
    THEN IF ~HasClient(adapters[a]) THEN Call(a, "getTransactions", address, NotInitialized, 0)
         ELSE IF ~IsValidAddress(a, address)
              THEN Call(a, "getTransactions", address, InvalidAddressError(a), 0)
         ELSE Proceeds(a, "getTransactions", address)
    ELSE IF ~IsValidAddress(a, address)
         THEN Call(a, "getTransactions", address, InvalidAddressError(a), 0)
         ELSE IF ~HasClient(adapters[a])
              THEN Call(a, "getTransactions", address, NotInitialized, 0)
         ELSE Proceeds(a, "getTransactions", address)

\* getBalance up to its first network call
GetBalanceEntry(a, address) ==
    IF a = "solana"
    THEN IF ~IsValidAddress(a, address)
         THEN Call(a, "getBalance", address, InvalidAddressError(a), 0)
         ELSE IF ~HasClient(adapters[a]) THEN Call(a, "getBalance", address, NotInitialized, 0)
         ELSE Proceeds(a, "getBalance", address)
    ELSE IF ~HasClient(adapters[a]) THEN Call(a, "getBalance", address, NotInitialized, 0)
         ELSE IF ~IsValidAddress(a, address)
              THEN Call(a, "getBalance", address, InvalidAddressError(a), 0)
         ELSE Proceeds(a, "getBalance", address)

AdapterGetTransactions(a, address) ==
    /\ callsMade < MaxCalls
    /\ callsMade' = callsMade + 1
    /\ lastCall' = GetTransactionsEntry(a, address)
    /\ UNCHANGED adapters
    /\ UNCHANGED nonAdVars

AdapterGetBalance(a, address) ==
    /\ callsMade < MaxCalls
    /\ callsMade' = callsMade + 1
    /\ lastCall' = GetBalanceEntry(a, address)
    /\ UNCHANGED adapters
    /\ UNCHANGED nonAdVars

\* isValidAddress(address): synchronous, no provider, connection or client
AdapterIsValidAddress(a, address) ==
    /\ callsMade < MaxCalls
    /\ callsMade' = callsMade + 1
    /\ lastCall' = [adapter |-> a, method |-> "isValidAddress", argument |-> address,
                    error |-> NoError, networkCalls |-> 0,
                    result |-> IsValidAddress(a, address)]
    /\ UNCHANGED adapters
    /\ UNCHANGED nonAdVars

AdaptersNext ==
    \/ \E a \in AdapterChains, config \in Configs : Initialize(a, config)
    \/ \E a \in AdapterChains, address \in Addresses : AdapterIsValidAddress(a, address)
    \/ \E a \in AdapterChains, address \in Addresses : AdapterGetTransactions(a, address)
    \/ \E a \in AdapterChains, address \in Addresses : AdapterGetBalance(a, address)

NoCall == Call("none", "none", NoClient, NoError, 0)

InitAdapters ==
    /\ adapters = [ethereum |-> FreshAdapter, solana |-> FreshAdapter,
                   bitcoin |-> FreshAdapter]
    /\ lastCall = NoCall
    /\ callsMade = 0
    /\ CBIdle
    /\ EthIdle
    /\ MetaIdle
    /\ DetailIdle
    /\ ParseIdle
    /\ FnIdle

SpecAdapters == InitAdapters /\ [][AdaptersNext]_vars

\* C15: a getTransactions or getBalance call with an address that
\* isValidAddress rejects ends with InvalidAddressError and without a network
\* call, in every state of every adapter.
C15_InvalidAddressRejected ==
    (/\ lastCall.method \in {"getTransactions", "getBalance"}
     /\ ~IsValidAddress(lastCall.adapter, lastCall.argument)) =>
        /\ lastCall.error = InvalidAddressError(lastCall.adapter)
        /\ lastCall.networkCalls = 0

C16_Step ==
    \A a \in AdapterChains :
        (/\ adapters[a].initialized
         /\ callsMade' = callsMade + 1
         /\ lastCall'.adapter = a
         /\ lastCall'.method = "initialize") =>
            /\ adapters' = adapters
            /\ lastCall'.error = AlreadyInitialized

\* C16: every initialize call on an adapter that is already initialized fails
\* with the already-initialized error and leaves the initialized flag and the
\* provider, connection or client of every adapter as the first call set them.
C16_OneShot == [][C16_Step]_vars

\* C16 witness: an initialize call with another configuration has failed on
\* an initialized adapter, which still holds the client of its first call.
C16_Witness ==
    /\ lastCall.method = "initialize"
    /\ lastCall.error = AlreadyInitialized
    /\ adapters[lastCall.adapter].initialized
    /\ HasClient(adapters[lastCall.adapter])
    /\ adapters[lastCall.adapter].client # lastCall.argument

\* isValidAddress(address) on an adapter as constructed
C23_AtConstruction(a, address) ==
    IF a = "bitcoin" THEN BitcoinIsValidAddress(FreshAdapter, address)
    ELSE IsValidAddress(a, address)

\* C23: isValidAddress(s) on an adapter returns the same boolean at every
\* point of every sequence of calls, before and after initialize with any
\* configuration, and makes no network call.
C23_IsValidAddressIsStable ==
    lastCall.method = "isValidAddress" =>
        /\ lastCall.result = C23_AtConstruction(lastCall.adapter, lastCall.argument)
        /\ lastCall.networkCalls = 0

(***************************************************************************)
(* Part IV.  EthereumAdapter.resolveTokenMetadata and its cache.  Every    *)
(* call walks over the unique lower-cased addresses it was given; for an   *)
(* address the cache does not have it awaits symbol() and decimals(), and  *)
(* other calls run while it waits.                                         *)
(***************************************************************************)
\* addresses as the logs give them; "" stands for an absent address
RawTokenAddresses == {"", "0xA", "0xa", "0xb"}

ToLowerCase(address) ==
    IF address = "0xA" THEN "0xa"
    ELSE IF address = "0xB" THEN "0xb"
    ELSE IF address = "0xT" THEN "0xt"
    ELSE IF address = "0xU" THEN "0xu"
    ELSE address

TokenAddresses == {"0xa", "0xb"}

\* what the contracts answer
ContractSymbol(token) == IF token = "0xa" THEN "USDC" ELSE "DAI"
ContractDecimals(token) == IF token = "0xa" THEN 6 ELSE 18

NoEntry == [symbol |-> "", decimals |-> -1]

\* Array.from(new Set(addresses.filter(Boolean).map(toLowerCase)))
RECURSIVE UniqueAddresses(_, _)
UniqueAddresses(seen, addresses) ==
    IF addresses = <<>> THEN seen
    ELSE LET address == ToLowerCase(Head(addresses))
         IN  IF Head(addresses) = "" \/ \E i \in DOMAIN seen : seen[i] = address
             THEN UniqueAddresses(seen, Tail(addresses))
             ELSE UniqueAddresses(Append(seen, address), Tail(addresses))

\* lines 538-550: the entry written after symbol() and decimals() settled
FetchedEntry(token, symbolFails, decimalsFails) ==
    [symbol |-> IF symbolFails THEN "ERC20" ELSE ContractSymbol(token),
     decimals |-> IF decimalsFails THEN 18 ELSE ContractDecimals(token)]

IdleTask == [pc |-> "idle", queue |-> <<>>, metadata |-> <<>>]

\* resolveTokenMetadata(addresses) is called
ResolveTokenMetadata(task, addresses) ==
    /\ metaTasks[task].pc = "idle"
    /\ metaTasks' = [metaTasks EXCEPT ![task] =
                        [pc |-> "check", queue |-> UniqueAddresses(<<>>, addresses),
                         metadata |-> <<>>]]
    /\ UNCHANGED tokenMetadataCache
    /\ UNCHANGED nonMetaVars

\* lines 554-557: metadata[tokenAddress] = info, then the next address
TaskAfter(t, cache) ==
    [t EXCEPT !.pc = "check", !.queue = Tail(@),
              !.metadata = Append(@, [token |-> Head(t.queue),
                                      info |-> cache[Head(t.queue)]])]

\* line 531 with the cache having the address: no await, lines 554-557
UseCached(task) ==
    /\ metaTasks[task].pc = "check"
    /\ metaTasks[task].queue # <<>>
    /\ tokenMetadataCache[Head(metaTasks[task].queue)] # NoEntry
    /\ metaTasks' = [metaTasks EXCEPT ![task] = TaskAfter(@, tokenMetadataCache)]
    /\ UNCHANGED tokenMetadataCache
    /\ UNCHANGED nonMetaVars

\* lines 531-541: the cache does not have the address; symbol() and
\* decimals() are called and awaited
CallContract(task) ==
    /\ metaTasks[task].pc = "check"
    /\ metaTasks[task].queue # <<>>
    /\ tokenMetadataCache[Head(metaTasks[task].queue)] = NoEntry
    /\ metaTasks' = [metaTasks EXCEPT ![task].pc = "await"]
    /\ UNCHANGED tokenMetadataCache
    /\ UNCHANGED nonMetaVars

\* lines 542-557: both calls settled; the entry is set and read back
CacheSet(cache, token, entry) == [cache EXCEPT ![token] = entry]

ContractSettles(task, symbolFails, decimalsFails) ==
    /\ metaTasks[task].pc = "await"
    /\ LET token == Head(metaTasks[task].queue)
       IN  tokenMetadataCache' =
               CacheSet(tokenMetadataCache, token,
                        FetchedEntry(token, symbolFails, decimalsFails))
    /\ metaTasks' = [metaTasks EXCEPT ![task] = TaskAfter(@, tokenMetadataCache')]
    /\ UNCHANGED nonMetaVars

\* line 560: return metadata
ReturnMetadata(task) ==
    /\ metaTasks[task].pc = "check"
    /\ metaTasks[task].queue = <<>>
    /\ metaTasks' = [metaTasks EXCEPT ![task].pc = "done"]
    /\ UNCHANGED tokenMetadataCache
    /\ UNCHANGED nonMetaVars

AddressLists ==
    {<<>>, <<"0xA">>, <<"0xb">>, <<"0xa", "0xA">>, <<"0xa", "0xb">>, <<"", "0xb", "0xa">>}

MetaNext ==
    \/ \E task \in 1..MaxMetaTasks, addresses \in AddressLists :
          ResolveTokenMetadata(task, addresses)
    \/ \E task \in 1..MaxMetaTasks : UseCached(task)
    \/ \E task \in 1..MaxMetaTasks : CallContract(task)
    \/ \E task \in 1..MaxMetaTasks, symbolFails \in BOOLEAN, decimalsFails \in BOOLEAN :
          ContractSettles(task, symbolFails, decimalsFails)
    \/ \E task \in 1..MaxMetaTasks : ReturnMetadata(task)

RECURSIVE IdleTasks(_)
IdleTasks(n) == IF n = 0 THEN <<>> ELSE Append(IdleTasks(n - 1), IdleTask)

InitMeta ==
    /\ tokenMetadataCache = [0xa |-> NoEntry, 0xb |-> NoEntry]
    /\ metaTasks = IdleTasks(MaxMetaTasks)
    /\ CBIdle
    /\ EthIdle
    /\ AdIdle
    /\ DetailIdle
    /\ ParseIdle
    /\ FnIdle

SpecMeta == InitMeta /\ [][MetaNext]_vars

\* C17: an entry of the token-metadata cache, once written, is never replaced
\* by a different value, whatever the interleaving of the calls and whichever
\* symbol() and decimals() calls fail.
C17_EntriesImmutable ==
    [][\A token \in TokenAddresses :
          tokenMetadataCache[token] # NoEntry =>
              tokenMetadataCache'[token] = tokenMetadataCache[token]]_vars

(***************************************************************************)
(* Part V.  The batch loop of getTransactions (lines 182-274) task by      *)
(* task.  The new hashes of a chunk are cut into batches; the lookups of a *)
(* batch run concurrently under Promise.all and settle in any order, each  *)
(* with a transaction, with null, or with an error.                        *)
(***************************************************************************)
RECURSIVE HashList(_)
HashList(n) == IF n = 0 THEN <<>> ELSE Append(HashList(n - 1), n)

RECURSIVE Running(_)
Running(batch) ==
    IF batch = <<>> THEN <<>>
    ELSE <<[hash |-> Head(batch), status |-> "running"]>> \o Running(Tail(batch))

InFlight(tasks) == Cardinality({k \in DOMAIN tasks : tasks[k].status = "running"})

\* lines 266-273: the number of transactions in processed after the batch
RECURSIVE StoredAfter(_, _, _)
StoredAfter(stored, tasks, lim) ==
    IF tasks = <<>> THEN stored
    ELSE IF Head(tasks).status # "transaction" THEN StoredAfter(stored, Tail(tasks), lim)
    ELSE IF ~BelowLimit(stored + 1, lim) THEN stored + 1
    ELSE StoredAfter(stored + 1, Tail(tasks), lim)

\* lines 185-190: the next batch is started
BeginBatch ==
    /\ detailPc = "batches"
    /\ detailQueue # <<>>
    /\ BelowLimit(detailStored, detailLimit)
    /\ detailTasks' = Running(Head(detailQueue))
    /\ detailQueue' = Tail(detailQueue)
    /\ detailPc' = "awaiting"
    /\ UNCHANGED <<detailStored, detailLimit>>
    /\ UNCHANGED nonDetailVars

\* lines 191-262: one lookup settles; an error rejects Promise.all, and the
\* call with it, while the other lookups of the batch go on
TaskSettles(k, outcome) ==
    /\ detailPc \in {"awaiting", "rejected"}
    /\ k \in DOMAIN detailTasks
    /\ detailTasks[k].status = "running"
    /\ detailTasks' = [detailTasks EXCEPT ![k].status = outcome]
    /\ detailPc' = IF outcome = "error" THEN "rejected" ELSE detailPc
    /\ UNCHANGED <<detailQueue, detailStored, detailLimit>>
    /\ UNCHANGED nonDetailVars

\* lines 266-273: Promise.all resolved; the results are stored
StoreBatch ==
    /\ detailPc = "awaiting"
    /\ \A k \in DOMAIN detailTasks : detailTasks[k].status \in {"transaction", "null"}
    /\ detailStored' = StoredAfter(detailStored, detailTasks, detailLimit)
    /\ detailPc' = "batches"
    /\ UNCHANGED <<detailQueue, detailTasks, detailLimit>>
    /\ UNCHANGED nonDetailVars

\* lines 185-188: no batch is left, or the limit is reached
EndBatches ==
    /\ detailPc = "batches"
    /\ detailQueue = <<>> \/ ~BelowLimit(detailStored, detailLimit)
    /\ detailPc' = "done"
    /\ UNCHANGED <<detailQueue, detailTasks, detailStored, detailLimit>>
    /\ UNCHANGED nonDetailVars

DetailNext ==
    \/ BeginBatch
    \/ \E k \in 1..PROVIDER_CONCURRENCY, outcome \in {"transaction", "null", "error"} :
          TaskSettles(k, outcome)
    \/ StoreBatch
    \/ EndBatches

DetailLimits == {NoLimit, 3, 6}

InitDetail ==
    /\ \E n \in 0..MaxHashes :
          detailQueue = ChunkArray(HashList(n), PROVIDER_CONCURRENCY)
    /\ detailTasks = <<>>
    /\ detailStored = 0
    /\ detailLimit \in DetailLimits
    /\ detailPc = "batches"
    /\ CBIdle
    /\ EthIdle
    /\ AdIdle
    /\ MetaIdle
    /\ ParseIdle
    /\ FnIdle

SpecDetail == InitDetail /\ [][DetailNext]_vars

\* a batch is started in this step
C18_BatchStarts == Len(detailQueue') < Len(detailQueue)

\* C18: at most PROVIDER_CONCURRENCY detail lookups are in flight after every
\* step, and a step that starts a batch finds every lookup of the batch
\* before it settled.
C18_BoundedConcurrency ==
    [][/\ InFlight(detailTasks') <= PROVIDER_CONCURRENCY
       /\ C18_BatchStarts => InFlight(detailTasks) = 0]_vars

\* C18 witness: the second batch is in flight after the first batch of
\* PROVIDER_CONCURRENCY lookups has settled and was stored.
C18_Witness ==
    /\ detailPc = "awaiting"
    /\ detailStored = PROVIDER_CONCURRENCY
    /\ detailQueue = <<>>
    /\ Len(detailTasks) = 2
    /\ InFlight(detailTasks) = 2

(***************************************************************************)
(* Part VI.  EthereumAdapter.parseTransaction (lines 303-368) and          *)
(* decodeTransferLog (lines 563-587).  A log carries its address, its      *)
(* topics and its data; the data is the hex encoding of the value.         *)
(***************************************************************************)
\* ethers.zeroPadValue(ethers.toBeHex(value), 32), by its last digits
LogData == {"0x00", "0x07", "0x5dc"}

\* the uint256 that a data word decodes to
DataValue(data) == IF data = "0x07" THEN 7 ELSE IF data = "0x5dc" THEN 1500 ELSE 0

\* erc20Interface.parseLog: the Transfer event of ERC20_TRANSFER_ABI with its
\* two indexed addresses and one data word; anything else is null or throws
ParseLog(topics, data) ==
    IF Len(topics) = 3 /\ topics[1] = "Transfer" /\ data \in LogData
    THEN <<[from |-> topics[2], to |-> topics[3], value |-> DataValue(data)]>>
    ELSE <<>>

\* decodeTransferLog: the decoded transfer, or nothing for null
DecodeTransferLog(log) ==
    IF log.data = "" \/ log.topics = <<>> \/ log.address = "" THEN <<>>
    ELSE LET args == ParseLog(log.topics, log.data)
         IN  IF args = <<>> THEN <<>>
             ELSE IF args[1].from = "" \/ args[1].to = "" THEN <<>>
             ELSE <<[address |-> ToLowerCase(log.address),
                     from |-> ToLowerCase(args[1].from),
                     to |-> ToLowerCase(args[1].to),
                     value |-> args[1].value]>>

\* logs.map(decodeTransferLog).filter(Boolean)
RECURSIVE DecodeTransfers(_)
DecodeTransfers(logs) ==
    IF logs = <<>> THEN <<>>
    ELSE DecodeTransferLog(Head(logs)) \o DecodeTransfers(Tail(logs))

MutTransferTypeNeverSwap(transfers) == "transfer"

\* line 339
TransferType(transfers) == IF Len(transfers) > 1 THEN "swap" ELSE "transfer"

\* tokenMetadata?.[address]
MetadataFor(tokenMetadata, address) ==
    IF \E i \in DOMAIN tokenMetadata : tokenMetadata[i].address = address
    THEN tokenMetadata[CHOOSE i \in DOMAIN tokenMetadata : tokenMetadata[i].address = address].symbol
    ELSE Undefined

\* transfer.value.toString() of every decoded transfer
RECURSIVE DecodedTransfers(_)
DecodedTransfers(transfers) ==
    IF transfers = <<>> THEN <<>>
    ELSE <<[address |-> Head(transfers).address, from |-> Head(transfers).from,
            to |-> Head(transfers).to, value |-> ToString(Head(transfers).value)]>>
         \o DecodedTransfers(Tail(transfers))

\* parseTransaction
EthereumParseTransaction(raw) ==
    LET base == [type |-> "transfer",
                 from |-> raw.from,
                 to |-> IF raw.to \in {Undefined, ""} THEN Undefined ELSE raw.to,
                 tokenSymbol |-> "ETH",
                 tokenAddress |-> IF raw.to \in {Undefined, ""} THEN Undefined ELSE raw.to,
                 amount |-> IF raw.value = Undefined THEN "0" ELSE raw.value,
                 decodedTransfers |-> <<>>]
        transfers == DecodeTransfers(raw.logs)
        primary == transfers[1]
        metadataForToken == MetadataFor(raw.tokenMetadata, primary.address)
    IN  IF transfers = <<>> THEN base
        ELSE [type |-> TransferType(transfers),
              from |-> primary.from,
              to |-> primary.to,
              tokenSymbol |-> IF metadataForToken # Undefined THEN metadataForToken
                              ELSE IF raw.to \notin {Undefined, ""} /\ raw.to # primary.to
                                   THEN "ERC20"
                              ELSE "ETH",
              tokenAddress |-> primary.address,
              amount |-> ToString(primary.value),
              decodedTransfers |-> DecodedTransfers(transfers)]

\* await adapter.parseTransaction(rawTx)
ParseEthereum ==
    /\ parsed = NoParsed
    /\ parsed' = EthereumParseTransaction(rawTx)
    /\ UNCHANGED <<rawTx, priceLookups>>
    /\ UNCHANGED nonParseVars

EthParseNext == ParseEthereum

\* the logs a transaction may carry: transfers of two tokens, a log of
\* another event, a transfer with one topic missing, undecodable data, and
\* logs without data, topics or address
SampleLogs ==
    {[address |-> "0xT", topics |-> <<"Transfer", "0xA", "0xB">>, data |-> "0x07"],
     [address |-> "0xU", topics |-> <<"Transfer", "0xB", "0xA">>, data |-> "0x5dc"],
     [address |-> "0xT", topics |-> <<"Approval", "0xA", "0xB">>, data |-> "0x07"],
     [address |-> "0xT", topics |-> <<"Transfer", "0xA">>, data |-> "0x07"],
     [address |-> "0xT", topics |-> <<"Transfer", "0xA", "0xB">>, data |-> "0x"],
     [address |-> "0xT", topics |-> <<"Transfer", "0xA", "0xB">>, data |-> ""],
     [address |-> "0xT", topics |-> <<>>, data |-> "0x07"],
     [address |-> "", topics |-> <<"Transfer", "0xA", "0xB">>, data |-> "0x07"]}

RECURSIVE LogLists(_)
LogLists(n) ==
    IF n = 0 THEN {<<>>}
    ELSE LogLists(n - 1)
         \cup {<<log>> \o logs : log \in SampleLogs, logs \in {l \in LogLists(n - 1) : Len(l) = n - 1}}

TokenMetadatas == {<<>>, <<[address |-> "0xt", symbol |-> "USDT", decimals |-> 6]>>}

EthRawTxs ==
    [from : {"0xa"}, to : {Undefined, "0xb", "0xt"}, value : {Undefined, "0", "42"},
     logs : LogLists(MaxLogs), tokenMetadata : TokenMetadatas]

InitEthParse ==
    /\ rawTx \in EthRawTxs
    /\ parsed = NoParsed
    /\ priceLookups = <<>>
    /\ CBIdle
    /\ EthIdle
    /\ AdIdle
    /\ MetaIdle
    /\ DetailIdle
    /\ FnIdle

SpecEthParse == InitEthParse /\ [][EthParseNext]_vars

\* the log is a Transfer log that decodes
C19_Decodes(log) ==
    /\ log.address # ""
    /\ log.topics # <<>>
    /\ log.topics[1] = "Transfer"
    /\ Len(log.topics) = 3
    /\ log.data \in LogData

C19_Decoding == {i \in DOMAIN rawTx.logs : C19_Decodes(rawTx.logs[i])}

C19_TheLog == rawTx.logs[CHOOSE i \in C19_Decoding : TRUE]

C19_IntegerStrings == {"0", "42"} \cup {ToString(DataValue(data)) : data \in LogData}

\* C19: parseTransaction classifies by the number n of Transfer logs that
\* decode: n = 0 gives a transfer of ETH whose amount is the transaction's
\* value, n = 1 a transfer with token address, from, to and amount of that
\* log, n > 1 a swap; the amount is the integer string of base units, never
\* divided by the token's decimals.
C19_Classification ==
    parsed # NoParsed =>
        LET n == Cardinality(C19_Decoding)
        IN  /\ n = 0 =>
                /\ parsed.type = "transfer"
                /\ parsed.tokenSymbol = "ETH"
                /\ parsed.amount = (IF rawTx.value = Undefined THEN "0" ELSE rawTx.value)
            /\ n = 1 =>
                /\ parsed.type = "transfer"
                /\ parsed.tokenAddress = ToLowerCase(C19_TheLog.address)
                /\ parsed.from = ToLowerCase(C19_TheLog.topics[2])
                /\ parsed.to = ToLowerCase(C19_TheLog.topics[3])
                /\ parsed.amount = ToString(DataValue(C19_TheLog.data))
            /\ n > 1 => parsed.type = "swap"
            /\ parsed.amount \in C19_IntegerStrings

\* C19 witness: a transaction whose three logs hold two Transfer logs that
\* decode and one that does not has been parsed as a swap, with metadata of
\* six decimals for the first token and the amount still in base units.
C19_Witness ==
    /\ parsed # NoParsed
    /\ Len(rawTx.logs) = 3
    /\ Cardinality(C19_Decoding) = 2
    /\ ~C19_Decodes(rawTx.logs[2])
    /\ rawTx.tokenMetadata # <<>>
    /\ parsed.type = "swap"
    /\ parsed.amount = "7"

(***************************************************************************)
(* Part VII.  SolanaAdapter.parseTransaction (solana.adapter.ts 170-273)   *)
(* with containsRaydiumProgram (427-432) and computeSplTokenDelta          *)
(* (462-491).                                                              *)
(***************************************************************************)
RAYDIUM_PROGRAM_IDS ==
    {"675kPX9MHTjS2zt1qfr1NYHuzeLXfQM9H24wFSUt1Nd",
     "RVKd61ztZW9JU7V2aU7D1JQjoXnR8nDzWnRmN7bP2Ce"}

\* (Number(BigInt(value)) / 1e9).toString(), 0n for a missing value
LamportsToSol(value) ==
    IF value \in {Undefined, "", "0"} THEN "0"
    ELSE IF value = "2000000000" THEN "2"
    ELSE IF value = "5000" THEN "0.000005"
    ELSE IF value = "-500000000" THEN "-0.5"
    ELSE "NaN"

\* programIds.some(id => RAYDIUM_PROGRAM_IDS.has(id)); false when undefined
ContainsRaydiumProgram(programIds) ==
    \E i \in DOMAIN programIds : programIds[i] \in RAYDIUM_PROGRAM_IDS

\* pre.find(owner and mint match)?.uiTokenAmount?.amount ?? '0'
PreAmount(pre, ownerAddress, mint) ==
    IF \E i \in DOMAIN pre : pre[i].owner = ownerAddress /\ pre[i].mint = mint
    THEN pre[CHOOSE i \in DOMAIN pre :
                 /\ pre[i].owner = ownerAddress /\ pre[i].mint = mint
                 /\ \A j \in 1..(i - 1) :
                        ~(pre[j].owner = ownerAddress /\ pre[j].mint = mint)].amount
    ELSE 0

\* computeSplTokenDelta: the first post balance of the owner that differs
\* from its pre balance, or nothing for null
RECURSIVE ComputeSplTokenDelta(_, _, _)
ComputeSplTokenDelta(pre, post, ownerAddress) ==
    IF post = <<>> THEN <<>>
    ELSE LET postBalance == Head(post)
             delta == postBalance.amount - PreAmount(pre, ownerAddress, postBalance.mint)
         IN  IF postBalance.owner # ownerAddress \/ delta = 0
             THEN ComputeSplTokenDelta(pre, Tail(post), ownerAddress)
             ELSE <<[mint |-> postBalance.mint,
                     amount |-> ToString(Abs(delta)),
                     symbol |-> "SPL",
                     counterparty |-> ownerAddress,
                     direction |-> IF delta < 0 THEN "out" ELSE "in"]>>

\* a || b || c on strings
Or3(a, b, c) == IF a \notin {Undefined, ""} THEN a ELSE IF b \notin {Undefined, ""} THEN b ELSE c

\* lines 173-192: the transaction as a transfer of SOL
SolanaBase(raw) ==
    [type |-> "transfer",
     from |-> raw.from,
     to |-> IF raw.to \in {Undefined, ""} THEN Undefined ELSE raw.to,
     tokenSymbol |-> "SOL",
     tokenAddress |-> Undefined,
     amount |-> LamportsToSol(raw.value),
     priceUSD |-> Undefined]

\* lines 197-218: the first entry of the swap decomposition
SolanaSwap(raw) ==
    LET primary == raw.swapAttributes[1]
    IN  [SolanaBase(raw) EXCEPT
            !.type = "swap",
            !.tokenSymbol = Or3(primary.outSymbol, primary.inSymbol, "SWAP"),
            !.amount = IF primary.outAmount # Undefined THEN primary.outAmount
                       ELSE IF primary.exactOutAmount # Undefined THEN primary.exactOutAmount
                       ELSE @,
            !.tokenAddress = Or3(primary.outMint, primary.inMint, primary.inMint)]

\* lines 220-229
SolanaRaydium(p, raw) ==
    IF ContainsRaydiumProgram(raw.programIds) THEN [p EXCEPT !.type = "swap"] ELSE p

\* lines 231-243
SolanaTokenChange(p, raw) ==
    IF ~raw.meta.present THEN p
    ELSE LET tokenChange == ComputeSplTokenDelta(raw.meta.pre, raw.meta.post, raw.from)
         IN  IF tokenChange = <<>> THEN p
             ELSE [p EXCEPT !.tokenSymbol = tokenChange[1].symbol,
                            !.tokenAddress = tokenChange[1].mint,
                            !.amount = tokenChange[1].amount,
                            !.to = tokenChange[1].counterparty]

\* lines 245-270: the historical price, when the price service has one
SolanaPrice(p, price) == IF price \in {"none", "error"} THEN p ELSE [p EXCEPT !.priceUSD = price]

\* parseTransaction
SolanaParseTransaction(raw, price) ==
    IF raw.swapAttributes # <<>> THEN SolanaSwap(raw)
    ELSE SolanaPrice(SolanaTokenChange(SolanaRaydium(SolanaBase(raw), raw), raw), price)

PriceOutcomes == {"none", "error", "100"}

\* lines 245-270: priceService.getHistoricalPrice(parsed.tokenSymbol, ...) is
\* called unless the swapAttributes branch has returned before it
LookupsAfter(raw, lookups, price) ==
    IF raw.swapAttributes # <<>> THEN lookups
    ELSE Append(lookups,
                [tokenSymbol |-> SolanaTokenChange(SolanaBase(raw), raw).tokenSymbol,
                 outcome |-> price])

\* await adapter.parseTransaction(rawTx)
ParseSolana(price) ==
    /\ parsed = NoParsed
    /\ parsed' = SolanaParseTransaction(rawTx, price)
    /\ priceLookups' = LookupsAfter(rawTx, priceLookups, price)
    /\ UNCHANGED rawTx
    /\ UNCHANGED nonParseVars

SolParseNext == \E price \in PriceOutcomes : ParseSolana(price)

SwapAttributeLists ==
    {<<>>,
     <<[inSymbol |-> "SOL", outSymbol |-> "USDC", outAmount |-> "150",
        exactOutAmount |-> Undefined, inMint |-> "MintSOL", outMint |-> "MintUSDC"]>>,
     <<[inSymbol |-> "BONK", outSymbol |-> "", outAmount |-> Undefined,
        exactOutAmount |-> "99", inMint |-> "MintBONK", outMint |-> ""],
       [inSymbol |-> "SOL", outSymbol |-> "USDC", outAmount |-> "150",
        exactOutAmount |-> Undefined, inMint |-> "MintSOL", outMint |-> "MintUSDC"]>>,
     <<[inSymbol |-> "", outSymbol |-> "", outAmount |-> Undefined,
        exactOutAmount |-> Undefined, inMint |-> "MintX", outMint |-> ""]>>}

ProgramIdLists ==
    {<<>>,
     <<"11111111111111111111111111111111">>,
     <<"11111111111111111111111111111111", "675kPX9MHTjS2zt1qfr1NYHuzeLXfQM9H24wFSUt1Nd">>,
     <<"RVKd61ztZW9JU7V2aU7D1JQjoXnR8nDzWnRmN7bP2Ce">>}

PreTokenBalances ==
    {<<>>,
     <<[owner |-> "Owner", mint |-> "MintA", amount |-> 5]>>,
     <<[owner |-> "Other", mint |-> "MintA", amount |-> 1],
       [owner |-> "Owner", mint |-> "MintB", amount |-> 9]>>}

PostTokenBalances ==
    {<<>>,
     <<[owner |-> "Owner", mint |-> "MintA", amount |-> 5]>>,
     <<[owner |-> "Owner", mint |-> "MintA", amount |-> 8]>>,
     <<[owner |-> "Other", mint |-> "MintA", amount |-> 7],
       [owner |-> "Owner", mint |-> "MintB", amount |-> 2]>>}

Metas ==
    {[present |-> FALSE, pre |-> <<>>, post |-> <<>>]}
    \cup [present : {TRUE}, pre : PreTokenBalances, post : PostTokenBalances]

SolRawTxs ==
    [from : {"Owner"}, to : {Undefined, "Dest"},
     value : {Undefined, "0", "5000", "2000000000", "-500000000"},
     swapAttributes : SwapAttributeLists, programIds : ProgramIdLists, meta : Metas]

InitSolParse ==
    /\ rawTx \in SolRawTxs
    /\ parsed = NoParsed
    /\ priceLookups = <<>>
    /\ CBIdle
    /\ EthIdle
    /\ AdIdle
    /\ MetaIdle
    /\ DetailIdle
    /\ FnIdle

SpecSolParse == InitSolParse /\ [][SolParseNext]_vars

\* the owner's SPL balance of some mint differs between pre and post
C20_HasTokenDelta ==
    /\ rawTx.meta.present
    /\ \E i \in DOMAIN rawTx.meta.post :
          /\ rawTx.meta.post[i].owner = rawTx.from
          /\ rawTx.meta.post[i].amount
                # PreAmount(rawTx.meta.pre, rawTx.from, rawTx.meta.post[i].mint)

\* the branch that the priority picks
C20_Branch ==
    IF rawTx.swapAttributes # <<>> THEN 1
    ELSE IF \E i \in DOMAIN rawTx.programIds : rawTx.programIds[i] \in RAYDIUM_PROGRAM_IDS THEN 2
    ELSE IF C20_HasTokenDelta THEN 3
    ELSE 4

\* C20: parseTransaction picks one branch by priority (swap decomposition,
\* known swap program, SPL balance delta, native lamport delta), and type,
\* tokenSymbol, tokenAddress and amount of the output are those of that
\* branch: a transaction of a known swap program is a swap without leg
\* detail, whatever its SPL balances are.
C20_OneBranchByPriority ==
    parsed # NoParsed =>
        /\ C20_Branch = 1 =>
              /\ parsed.type = "swap"
              /\ parsed.tokenAddress \in {rawTx.swapAttributes[1].outMint,
                                          rawTx.swapAttributes[1].inMint}
        /\ C20_Branch = 2 =>
              /\ parsed.type = "swap"
              /\ parsed.tokenSymbol = "SOL"
              /\ parsed.tokenAddress = Undefined
              /\ parsed.amount = LamportsToSol(rawTx.value)
        /\ C20_Branch = 3 =>
              /\ parsed.type = "transfer"
              /\ parsed.tokenSymbol = "SPL"
              /\ parsed.tokenAddress # Undefined
        /\ C20_Branch = 4 =>
              /\ parsed.type = "transfer"
              /\ parsed.tokenSymbol = "SOL"
              /\ parsed.tokenAddress = Undefined
              /\ parsed.amount = LamportsToSol(rawTx.value)

\* the magnitude of a lamport value, as the string it is given in
C21_Magnitude(value) ==
    IF value \in {Undefined, ""} THEN "0"
    ELSE IF value = "-500000000" THEN "500000000"
    ELSE value

\* C21: the amount of a parsed transaction is a non-negative integer string
\* of base units; for a native SOL transfer it is the magnitude of the raw
\* lamport value unchanged, so value 5000 gives amount 5000.
C21_AmountIsBaseUnitMagnitude ==
    (parsed # NoParsed /\ C20_Branch = 4) => parsed.amount = C21_Magnitude(rawTx.value)

(***************************************************************************)
(* Part VIII.  Functions of the pipeline, each called once on arguments    *)
(* drawn from a sample set.                                                *)
(*                                                                         *)
(* mapTransactionType (part_000 lines 9-31) and the Transaction that the   *)
(* fetch functions build from a ParsedTransaction (lines 57-77).  An       *)
(* amount is a string; parseFloat gives its value in millionths, or NaN.   *)
(***************************************************************************)
AdapterTransactionTypes ==
    {"transfer", "swap", "stake", "unstake", "mint", "burn", "deposit", "withdraw",
     "claim", "unknown"}

AmountStrings == {"0", "7", "-7", "1500", "-1500", "-0.5", "0.000005", ""}

\* parseFloat(amount), in millionths
ParseFloat(amount) ==
    IF amount = "0" THEN Num(0)
    ELSE IF amount = "7" THEN Num(7000000)
    ELSE IF amount = "-7" THEN Num(-7000000)
    ELSE IF amount = "1500" THEN Num(1500000000)
    ELSE IF amount = "-1500" THEN Num(-1500000000)
    ELSE IF amount = "-0.5" THEN Num(-500000)
    ELSE IF amount = "0.000005" THEN Num(5)
    ELSE NaN

\* x < 0 on numbers: false for NaN
Negative(x) == ~IsNaN(x) /\ x[1] < 0

\* mapTransactionType
MapTransactionType(adapterType, amount) ==
    LET isOutgoing == Negative(ParseFloat(amount))
    IN  CASE adapterType = "transfer" -> IF isOutgoing THEN "sell" ELSE "buy"
          [] adapterType = "swap" -> "swap"
          [] adapterType \in {"stake", "deposit"} -> "buy"
          [] adapterType \in {"unstake", "withdraw"} -> "sell"
          [] adapterType \in {"mint", "claim"} -> "airdrop"
          [] adapterType = "burn" -> "fee"
          [] OTHER -> IF isOutgoing THEN "sell" ELSE "buy"

\* lines 60-76: the Transaction pushed for a ParsedTransaction
TransactionOf(p) ==
    [done |-> TRUE,
     type |-> MapTransactionType(p.type, p.amount),
     tokenSymbol |-> p.tokenSymbol,
     amount |-> p.amount]

\* transactions.push({... type: mapTransactionType(parsed.type, parsed.amount) ...})
MapTransaction ==
    /\ fnArgs.name = "mapTransactionType"
    /\ ~fnReturned.done
    /\ fnReturned' = TransactionOf(fnArgs)
    /\ UNCHANGED <<fnArgs, fnLocals>>
    /\ UNCHANGED nonFnVars

MapNext == MapTransaction

InitMap ==
    /\ fnArgs \in [name : {"mapTransactionType"}, type : AdapterTransactionTypes,
                  amount : AmountStrings, tokenSymbol : {"ETH", "SOL"}]
    /\ fnLocals = NoLocals
    /\ fnReturned = NotReturned
    /\ CBIdle
    /\ EthIdle
    /\ AdIdle
    /\ MetaIdle
    /\ DetailIdle
    /\ ParseIdle

SpecMap == InitMap /\ [][MapNext]_vars

\* C22: the type of a Transaction built with mapTransactionType agrees with
\* the sign of its amount: buy, airdrop and reward only with an amount >= 0,
\* sell only with an amount < 0.
C22_TypeAgreesWithSign ==
    (fnReturned.done /\ ~IsNaN(ParseFloat(fnReturned.amount))) =>
        /\ fnReturned.type \in {"buy", "airdrop", "reward"} => ParseFloat(fnReturned.amount)[1] >= 0
        /\ fnReturned.type = "sell" => ParseFloat(fnReturned.amount)[1] < 0

(***************************************************************************)
(* fromWei and toWei (shared/src/utils.ts lines 148-173).  A string is the *)
(* sequence of its characters; BigInt arithmetic is exact, its division    *)
(* truncates towards zero and its remainder has the sign of the dividend.  *)
(***************************************************************************)
DigitChars == <<"0", "1", "2", "3", "4", "5", "6", "7", "8", "9">>

RECURSIVE NatToString(_)
NatToString(n) ==
    IF n < 10 THEN <<DigitChars[n + 1]>>
    ELSE NatToString(n \div 10) \o <<DigitChars[(n % 10) + 1]>>

\* bigint.toString()
BigIntToString(n) == IF n < 0 THEN <<"-">> \o NatToString(-n) ELSE NatToString(n)

DigitValue(c) == (CHOOSE i \in DOMAIN DigitChars : DigitChars[i] = c) - 1

IsDigits(str) == \A i \in DOMAIN str : \E j \in DOMAIN DigitChars : DigitChars[j] = str[i]

RECURSIVE DigitsValue(_)
DigitsValue(str) ==
    IF str = <<>> THEN 0
    ELSE 10 * DigitsValue(SubSeq(str, 1, Len(str) - 1)) + DigitValue(str[Len(str)])

\* BigInt(str): 0n for the empty string, a SyntaxError for anything that is
\* not an optional sign followed by digits
BigInt(str) ==
    IF str = <<>> THEN [ok |-> TRUE, value |-> 0]
    ELSE IF IsDigits(str) THEN [ok |-> TRUE, value |-> DigitsValue(str)]
    ELSE IF Len(str) > 1 /\ Head(str) = "-" /\ IsDigits(Tail(str))
         THEN [ok |-> TRUE, value |-> -DigitsValue(Tail(str))]
    ELSE [ok |-> FALSE, value |-> 0]

RECURSIVE Pow10(_)
Pow10(decimals) == IF decimals = 0 THEN 1 ELSE 10 * Pow10(decimals - 1)

\* a / b and a % b on bigints, b > 0
BigDiv(a, b) == IF a >= 0 THEN a \div b ELSE -((-a) \div b)
BigRem(a, b) == a - b * BigDiv(a, b)

RECURSIVE PadStart(_, _)
PadStart(str, length) == IF Len(str) >= length THEN str ELSE PadStart(<<"0">> \o str, length)

RECURSIVE PadEnd(_, _)
PadEnd(str, length) == IF Len(str) >= length THEN str ELSE PadEnd(str \o <<"0">>, length)

RECURSIVE StripZeros(_)
StripZeros(str) ==
    IF str # <<>> /\ str[Len(str)] = "0" THEN StripZeros(SubSeq(str, 1, Len(str) - 1))
    ELSE str

\* str.replace(/\.?0+$/, '')
StripTrailing(str) ==
    IF str = <<>> \/ str[Len(str)] # "0" THEN str
    ELSE LET stripped == StripZeros(str)
         IN  IF stripped # <<>> /\ stripped[Len(stripped)] = "."
             THEN SubSeq(stripped, 1, Len(stripped) - 1)
             ELSE stripped

\* fromWei(amount, decimals)
FromWei(amount, decimals) ==
    LET factor == Pow10(decimals)
        num == BigInt(amount).value
        wholePart == BigDiv(num, factor)
        fractionalPart == BigRem(num, factor)
    IN  IF fractionalPart = 0 THEN BigIntToString(wholePart)
        ELSE StripTrailing(BigIntToString(wholePart) \o <<".">>
                           \o PadStart(BigIntToString(fractionalPart), decimals))

\* the positions of '.' in the string
Dots(str) == {i \in DOMAIN str : str[i] = "."}

Least(positions) == CHOOSE i \in positions : \A j \in positions : i <= j

\* const [wholePart, fractionalPart = ''] = amount.split('.')
SplitWhole(str) == IF Dots(str) = {} THEN str ELSE SubSeq(str, 1, Least(Dots(str)) - 1)

SplitFractional(str) ==
    IF Dots(str) = {} THEN <<>>
    ELSE LET rest == SubSeq(str, Least(Dots(str)) + 1, Len(str))
         IN  IF Dots(rest) = {} THEN rest ELSE SubSeq(rest, 1, Least(Dots(rest)) - 1)

\* toWei(amount, decimals): the string returned, or the SyntaxError of BigInt
ToWei(amount, decimals) ==
    LET wholePart == SplitWhole(amount)
        fractionalPart == SplitFractional(amount)
        factor == Pow10(decimals)
        whole == BigInt(IF wholePart = <<>> THEN <<"0">> ELSE wholePart)
        fractional == BigInt(SubSeq(PadEnd(fractionalPart, decimals), 1, decimals))
    IN  IF ~whole.ok \/ ~fractional.ok THEN [ok |-> FALSE, value |-> <<>>]
        ELSE [ok |-> TRUE,
              value |-> BigIntToString(whole.value * factor + fractional.value)]

\* fromWei(a, d) is called
CallFromWei ==
    /\ fnArgs.name = "fromWei"
    /\ fnReturned = NotReturned
    /\ fnReturned' = [done |-> FALSE, fromWei |-> FromWei(fnArgs.amount, fnArgs.decimals)]
    /\ UNCHANGED <<fnArgs, fnLocals>>
    /\ UNCHANGED nonFnVars

\* toWei(fromWei(a, d), d) is called
CallToWei ==
    /\ fnArgs.name = "fromWei"
    /\ fnReturned # NotReturned
    /\ ~fnReturned.done
    /\ fnReturned' = [done |-> TRUE, fromWei |-> fnReturned.fromWei,
                      toWei |-> ToWei(fnReturned.fromWei, fnArgs.decimals)]
    /\ UNCHANGED <<fnArgs, fnLocals>>
    /\ UNCHANGED nonFnVars

WeiNext == CallFromWei \/ CallToWei

InitWei ==
    /\ \E a \in (-MaxAmount)..MaxAmount, d \in 0..MaxDecimals :
          fnArgs = [name |-> "fromWei", amount |-> BigIntToString(a), decimals |-> d]
    /\ fnLocals = NoLocals
    /\ fnReturned = NotReturned
    /\ CBIdle
    /\ EthIdle
    /\ AdIdle
    /\ MetaIdle
    /\ DetailIdle
    /\ ParseIdle

SpecWei == InitWei /\ [][WeiNext]_vars

\* C24: toWei(fromWei(a, d), d) returns a, for every base-unit integer
\* string a, signed or not, and every decimals d >= 0.
C24_RoundTrip ==
    fnReturned.done =>
        /\ fnReturned.toWei.ok
        /\ fnReturned.toWei.value = fnArgs.amount

\* C25: Solana parseTransaction makes one historical-price lookup for every
\* transaction it parses, whichever branch classifies it; priceUSD is the
\* price when the lookup gives one and is unset when it gives none or throws.
C25_OnePriceLookup ==
    parsed # NoParsed =>
        /\ Len(priceLookups) = 1
        /\ priceLookups[1].outcome \in {"none", "error"} => parsed.priceUSD = Undefined
        /\ priceLookups[1].outcome \notin {"none", "error"} =>
              parsed.priceUSD = priceLookups[1].outcome

(***************************************************************************)
(* The getLogs windows of a getTransactions call.                          *)
(***************************************************************************)
\* the two queries of a chunk are issued in this step
C26_Issued == ethPc = "loop" /\ ethPc' = "logs"

C26_Window(f) ==
    /\ f.fromBlock <= f.toBlock
    /\ f.toBlock - f.fromBlock + 1 <= LOG_CHUNK_BLOCKS
    /\ f.toBlock <= toBlock

C26_Step ==
    /\ C26_Issued =>
          /\ fetch'.sender.fromBlock = fetch'.receiver.fromBlock
          /\ fetch'.sender.toBlock = fetch'.receiver.toBlock
          /\ C26_Window(fetch'.sender)
          /\ fetch.sender.status = "idle" => fetch'.sender.fromBlock = Max(fromBlock, 0)
          /\ fetch.sender.status # "idle" =>
                fetch'.sender.fromBlock = fetch.sender.toBlock + 1
    /\ ethPc' = "done" =>
          /\ fetch.sender.status # "idle"
          /\ fetch.sender.toBlock = toBlock

RECURSIVE C27_Quantity(_)
C27_Quantity(es) == IF es = <<>> THEN 0 ELSE Abs(Head(es).amount) + C27_Quantity(Tail(es))

C27_Held(es) == LET Held(e) == IsLot(e) /\ ~e.isDisposed IN C27_Quantity(SelectSeq(es, Held))

C27_Disposed(es) == LET Disp(e) == ~IsLot(e) IN C27_Quantity(SelectSeq(es, Disp))

C27_NonNegativeLots ==
    \A i \in DOMAIN transactions :
        transactions[i].type \in AcquisitionTypes => transactions[i].amount >= 0

C28_NoLotFromTheFuture ==
    cbPc = "done" =>
        \A i \in DOMAIN results :
            \A k \in DispEntries(results[i].entries) :
                results[i].entries[k].acquisitionDate
                    <= transactions[results[i].entries[k].transactionId].timestamp

(***************************************************************************)
(* Part IX.  EthereumAdapter.resolveToBlock and getBlockForTimestamp: the  *)
(* upper block of getTransactions.  A chain is the sequence of the         *)
(* timestamps (in seconds) of its blocks 0..head; a Date is a number of    *)
(* milliseconds.                                                           *)
(***************************************************************************)
MaxBlock == 3            \* number of the highest block of a chain
MaxTime == 3             \* highest block timestamp, in seconds

NotGiven == -1           \* an option that the caller left out

\* provider.getBlock(n): null above the head of the chain
GetBlock(blocks, n) ==
    IF n + 1 \in DOMAIN blocks THEN [exists |-> TRUE, timestamp |-> blocks[n + 1]]
    ELSE [exists |-> FALSE, timestamp |-> 0]

\* Math.floor(targetDate.getTime() / 1000)
TargetOf(date) == date \div 1000

\* let low = 0; let high = latestBlock; let candidate = 0
SearchStart(resolved, latestBlock) ==
    [pc |-> "getBlock", resolved |-> resolved, low |-> 0, high |-> latestBlock,
     candidate |-> 0]

\* an iteration that finds block.timestamp <= target, with low left at mid
MutSearchKeepsLow(l, block, target) ==
    LET mid == (l.low + l.high) \div 2
    IN  IF ~block.exists \/ block.timestamp = 0 THEN [l EXCEPT !.high = mid - 1]
        ELSE IF block.timestamp <= target
             THEN [l EXCEPT !.candidate = mid, !.low = mid]
             ELSE [l EXCEPT !.high = mid - 1]

\* one iteration of the while loop, with the block that getBlock(mid) returned
SearchIteration(l, block, target) ==
    LET mid == (l.low + l.high) \div 2
    IN  IF ~block.exists \/ block.timestamp = 0 THEN [l EXCEPT !.high = mid - 1]
        ELSE IF block.timestamp <= target
             THEN [l EXCEPT !.candidate = mid, !.low = mid + 1]
             ELSE [l EXCEPT !.high = mid - 1]

\* const latestBlock = options?.toBlock ?? (await provider.getBlockNumber())
LatestBlock(a) == IF a.toBlock # NotGiven THEN a.toBlock ELSE Len(a.blocks) - 1

\* getTransactions calls resolveToBlock(options, latestBlock): without a
\* toDate it returns at once, with one it enters getBlockForTimestamp
CallResolveToBlock ==
    /\ fnArgs.name = "resolveToBlock"
    /\ fnLocals = NoLocals
    /\ ~fnReturned.done
    /\ LET latestBlock == LatestBlock(fnArgs)
           resolved == IF fnArgs.toBlock # NotGiven THEN fnArgs.toBlock ELSE latestBlock
       IN  IF fnArgs.toDate = NotGiven
           THEN /\ fnReturned' = [done |-> TRUE, value |-> resolved,
                                  blockForDate |-> NotGiven]
                /\ UNCHANGED fnLocals
           ELSE /\ fnLocals' = [SearchStart(resolved, latestBlock) EXCEPT !.pc =
                                    IF 0 <= latestBlock THEN "getBlock" ELSE "return"]
                /\ UNCHANGED fnReturned
    /\ UNCHANGED fnArgs
    /\ UNCHANGED nonFnVars

\* provider.getBlock(mid) resolves and the iteration runs up to the next await
GetBlockResolves ==
    /\ fnLocals.pc = "getBlock"
    /\ LET mid == (fnLocals.low + fnLocals.high) \div 2
           l == SearchIteration(fnLocals, GetBlock(fnArgs.blocks, mid),
                                TargetOf(fnArgs.toDate))
       IN  fnLocals' = [l EXCEPT !.pc = IF l.low <= l.high THEN "getBlock" ELSE "return"]
    /\ UNCHANGED <<fnArgs, fnReturned>>
    /\ UNCHANGED nonFnVars

\* return candidate; resolved = Math.min(resolved, blockForDate); return resolved
SearchReturns ==
    /\ fnLocals.pc = "return"
    /\ fnReturned' = [done |-> TRUE,
                      value |-> Min(fnLocals.resolved, fnLocals.candidate),
                      blockForDate |-> fnLocals.candidate]
    /\ fnLocals' = NoLocals
    /\ UNCHANGED fnArgs
    /\ UNCHANGED nonFnVars

BlockNext == CallResolveToBlock \/ GetBlockResolves \/ SearchReturns

BlockChains == UNION {[1..n -> 0..MaxTime] : n \in 1..(MaxBlock + 1)}
Dates == {NotGiven} \cup {500 * k : k \in 0..(2 * MaxTime + 1)}

InitBlock ==
    /\ fnArgs \in [name : {"resolveToBlock"}, blocks : BlockChains,
                    toBlock : {NotGiven} \cup 0..(MaxBlock + 1), toDate : Dates]
    /\ fnLocals = NoLocals
    /\ fnReturned = NotReturned
    /\ CBIdle
    /\ EthIdle
    /\ AdIdle
    /\ MetaIdle
    /\ DetailIdle
    /\ ParseIdle

SpecBlock == InitBlock /\ [][BlockNext]_vars

\* every getBlock promise settles and the event loop resumes the call
SpecBlockLive == SpecBlock /\ WF_vars(BlockNext)

\* every block 0..latestBlock exists with a positive timestamp that does not
\* decrease with the block number
C30_Ordered(blocks, latestBlock) ==
    /\ latestBlock + 1 \in DOMAIN blocks
    /\ \A b \in 1..(latestBlock + 1) : blocks[b] > 0
    /\ \A b \in 1..latestBlock : blocks[b] <= blocks[b + 1]

C30_Largest(blocks, latestBlock, target) ==
    LET qualifying == {b \in 0..latestBlock : blocks[b + 1] <= target}
    IN  IF qualifying = {} THEN 0
        ELSE CHOOSE b \in qualifying : \A c \in qualifying : c <= b

C30_Step ==
    /\ (fnLocals.pc = "getBlock" /\ fnLocals'.pc = "getBlock") =>
          /\ fnLocals'.high - fnLocals'.low < fnLocals.high - fnLocals.low
          /\ fnLocals'.high - fnLocals'.low >= 0
    /\ (fnLocals.pc = "getBlock" /\ fnLocals'.pc = "return") =>
          fnLocals'.high - fnLocals'.low < fnLocals.high - fnLocals.low
    /\ (fnReturned'.done /\ fnArgs.toDate # NotGiven
          /\ C30_Ordered(fnArgs.blocks, LatestBlock(fnArgs))) =>
          fnReturned'.blockForDate =
              C30_Largest(fnArgs.blocks, LatestBlock(fnArgs), TargetOf(fnArgs.toDate))
    /\ fnReturned'.done =>
          /\ fnReturned'.value <= LatestBlock(fnArgs)
          /\ fnArgs.toBlock # NotGiven => fnReturned'.value <= fnArgs.toBlock

\* C30: getBlockForTimestamp terminates (the call returns, and each iteration
\* narrows high - low, which stays at or above 0 while the loop runs) and,
\* when every block
\* 0..latestBlock exists with a positive non-decreasing timestamp, returns the
\* largest block of [0, latestBlock] whose timestamp is <= target, or 0 when
\* there is none; resolveToBlock then returns no block above the caller's
\* toBlock or above latestBlock.
C30_SearchFindsTheBlock == [][C30_Step]_vars /\ <>(fnReturned.done)

\* C30 witness: over an ordered chain of three blocks or more the search took
\* several iterations and returned a block above 0 and below latestBlock.
C30_Witness ==
    /\ fnArgs.name = "resolveToBlock"
    /\ fnReturned.done
    /\ fnArgs.toDate # NotGiven
    /\ C30_Ordered(fnArgs.blocks, LatestBlock(fnArgs))
    /\ LatestBlock(fnArgs) >= 2
    /\ fnReturned.blockForDate > 0
    /\ fnReturned.blockForDate < LatestBlock(fnArgs)
    /\ fnReturned.value = fnReturned.blockForDate

\* C29: rawData.logs of every transaction that getTransactions returns holds
\* each Transfer log of the chain at most once, so a transaction with exactly
\* one Transfer log that involves the address gets the type transfer from
\* parseTransaction (line 339, every log of the filter decoding to one
\* transfer), also when the address is its sender and its recipient.
C29_EachLogOnce ==
    ethPc = "done" =>
        \A i \in DOMAIN ethResult :
            LET logs == ethResult[i].logs
            IN  /\ \A j \in DOMAIN logs, k \in DOMAIN logs :
                      logs[j].logIndex = logs[k].logIndex => j = k
                /\ Len(TxOf(chain, ethResult[i].hash).logs) = 1 =>
                      TransferType(logs) = "transfer"

====
